---- MODULE Spec2Model ----
(***************************************************************************)
(* Resilience simulation and evaluation engine of dismant-construct:       *)
(* BaseAttack.attack and its strategies, RandomAttack.attack_multiple_runs, *)
(* UnifiedEvaluator (evaluate_dismant, evaluate_construct, the two          *)
(* construction heuristics) and the curve metrics.                          *)
(*                                                                         *)
(* Python floats are modelled as exact rationals <<num, den>> in lowest     *)
(* terms with den > 0; Python None is the value None.                       *)
(***************************************************************************)
EXTENDS Integers, Sequences, FiniteSets, TLC

\* ------------------------------------------------------------------ bounds
\* largest number of nodes of an enumerated input graph
MaxNodes == 3
\* largest budget / sequence length handed to an operation
MaxBudget == 3
\* largest num_runs / random_runs
MaxRuns == 2
\* largest seed a RandomAttack or UnifiedEvaluator is constructed with
MaxSeed == 1
\* number of raw draws of a generator stream before it repeats
StreamLen == 2
\* number of values a raw draw can take
RngRange == 2
\* largest number of attack calls made on one strategy instance
MaxCalls == 2
\* largest explicit attack_budget handed to evaluate_construct
MaxStress == 2

None == -1

\* ------------------------------------------------------------ rationals
RECURSIVE GCD(_, _)
GCD(a, b) == IF b = 0 THEN a ELSE GCD(b, a % b)

Abs(x) == IF x < 0 THEN -x ELSE x

\* n/d in lowest terms, d # 0
Rat(n, d) ==
    LET s == IF d < 0 THEN -1 ELSE 1
        g == GCD(Abs(n), Abs(d))
    IN  <<(s * n) \div g, (s * d) \div g>>

Zero == <<0, 1>>
One == <<1, 1>>
NoneR == <<0, 0>>

RatAdd(a, b) == Rat(a[1] * b[2] + b[1] * a[2], a[2] * b[2])
RatSub(a, b) == Rat(a[1] * b[2] - b[1] * a[2], a[2] * b[2])
RatMul(a, b) == Rat(a[1] * b[1], a[2] * b[2])
RatDiv(a, b) == Rat(a[1] * b[2], a[2] * b[1])
RatLt(a, b) == a[1] * b[2] < b[1] * a[2]
RatLe(a, b) == a[1] * b[2] <= b[1] * a[2]

\* ------------------------------------------------------------ sequences
Range(s) == {s[i] : i \in 1..Len(s)}

RECURSIVE SeqSum(_)
SeqSum(s) == IF s = <<>> THEN Zero ELSE RatAdd(Head(s), SeqSum(Tail(s)))

RECURSIVE Remove(_, _)
Remove(s, x) ==
    IF s = <<>> THEN <<>>
    ELSE IF Head(s) = x THEN Remove(Tail(s), x)
    ELSE <<Head(s)>> \o Remove(Tail(s), x)

\* all sequences without repetition over the elements of S
RECURSIVE Orderings(_)
Orderings(S) ==
    IF S = {} THEN {<<>>}
    ELSE UNION {{<<x>> \o t : t \in Orderings(S \ {x})} : x \in S}

\* all sequences over S of length at most n
RECURSIVE SeqsUpTo(_, _)
SeqsUpTo(S, n) ==
    IF n = 0 THEN {<<>>}
    ELSE LET shorter == SeqsUpTo(S, n - 1)
         IN  shorter \cup {Append(t, x) : t \in {u \in shorter : Len(u) = n - 1}, x \in S}

\* ---------------------------------------------------------------- graph
\* nx.Graph: nodes in insertion order, undirected edges as two-element sets;
\* obj is the identity of the Python object
NodeSet(G) == Range(G.nodes)
number_of_nodes(G) == Len(G.nodes)
number_of_edges(G) == Cardinality(G.edges)
has_edge(G, u, v) == {u, v} \in G.edges
degree(G, n) == Cardinality({e \in G.edges : n \in e})

\* a second name for the same object instead of a copy
alias(G) == G

\* graph.copy(): a new object with the same nodes and edges
copy(G) == [G EXCEPT !.obj = "copy"]

\* g.remove_node(n) for n in g
remove_node(G, n) ==
    [G EXCEPT !.nodes = Remove(G.nodes, n),
              !.edges = {e \in G.edges : n \notin e}]

\* g.add_edge(u, v)
add_edge(G, u, v) == [G EXCEPT !.edges = G.edges \cup {{u, v}}]

RECURSIVE Reach(_, _)
Reach(G, S) ==
    LET T == S \cup {n \in NodeSet(G) : \E m \in S : {m, n} \in G.edges}
    IN  IF T = S THEN S ELSE Reach(G, T)

\* nx.connected_components
connected_components(G) == {Reach(G, {n}) : n \in NodeSet(G)}

SetMax(S) == CHOOSE x \in S : \A y \in S : y <= x

largest_cc_size(G) == SetMax({Cardinality(cc) : cc \in connected_components(G)})

\* what the caller's object holds once a callee has worked on g
AfterCall(G, g) == IF g.obj = G.obj THEN g ELSE G

\* -------------------------------------------------------------- metrics
\* np.trapezoid(y, x)
RECURSIVE trapezoid(_, _)
trapezoid(y, x) ==
    IF Len(y) < 2 THEN Zero
    ELSE RatAdd(RatMul(RatSub(x[2], x[1]), RatDiv(RatAdd(y[2], y[1]), <<2, 1>>)),
                trapezoid(Tail(y), Tail(x)))

\* AttackResult.compute_r_res
AttackResult_compute_r_res(self) ==
    IF Len(self.lcc_values) < 2 THEN Zero
    ELSE trapezoid(self.lcc_values, self.removal_fractions)

RECURSIVE find_collapse_from(_, _, _)
find_collapse_from(self, threshold, i) ==
    IF i > Len(self.lcc_values) THEN NoneR
    ELSE LET lcc == self.lcc_values[i]
         IN  IF RatLt(lcc, threshold)
             THEN IF i > 1 /\ self.lcc_values[i - 1] # lcc
                  THEN LET lcc_prev == self.lcc_values[i - 1]
                           frac_prev == self.removal_fractions[i - 1]
                           frac_curr == self.removal_fractions[i]
                           t == RatDiv(RatSub(lcc_prev, threshold), RatSub(lcc_prev, lcc))
                       IN  RatAdd(frac_prev, RatMul(t, RatSub(frac_curr, frac_prev)))
                  ELSE self.removal_fractions[i]
             ELSE find_collapse_from(self, threshold, i + 1)

\* a search that never looks at the first point
find_collapse_after_first(self, threshold) == find_collapse_from(self, threshold, 2)

\* AttackResult.find_collapse_point
AttackResult_find_collapse_point(self, threshold) == find_collapse_from(self, threshold, 1)

\* the largest component over the nodes that are left
CurrentLccRatio(graph, initial_nodes) ==
    IF number_of_nodes(graph) = 0 THEN Zero
    ELSE Rat(largest_cc_size(graph), number_of_nodes(graph))

\* BaseAttack._compute_lcc_ratio
BaseAttack_compute_lcc_ratio(graph, initial_nodes) ==
    IF number_of_nodes(graph) = 0 THEN Zero
    ELSE Rat(largest_cc_size(graph), initial_nodes)

\* ----------------------------------------------------------- strategies
\* A strategy instance: kind is the class ("hda", "random", or "script" for
\* any other subclass of BaseAttack, whose select_node returns script[pos+1])
Attacker(kind, name) ==
    [kind |-> kind, name |-> <<name>>, recalculate |-> TRUE, initial_ranking |-> <<None>>,
     seed |-> None, rng |-> <<>>, pos |-> 0, script |-> <<>>]

\* HighestDegreeAttack.__init__
HighestDegreeAttack(recalculate) ==
    [Attacker("hda", IF recalculate THEN "HighestDegreeAttack" ELSE "HighestDegreeAttack_Static")
        EXCEPT !.recalculate = recalculate]

\* random.Random(seed): tbl[seed] is the raw output stream of that seed, a
\* fixed function of the seed; draw number pos + 1 of a stream (streams repeat)
Draw(stream, pos) == stream[(pos % Len(stream)) + 1]

\* RandomAttack.__init__
RandomAttack(tbl, seed) ==
    [Attacker("random", "RandomAttack") EXCEPT !.seed = seed, !.rng = tbl[seed]]

\* RandomAttack.set_seed
set_seed(self, tbl, seed) == [self EXCEPT !.seed = seed, !.rng = tbl[seed], !.pos = 0]

\* a BaseAttack subclass whose select_node answers are given by script
ScriptedAttack(script) == [Attacker("script", "Scripted") EXCEPT !.script = script]

\* the last node of maximum degree
LastMaxDegreeNode(graph) ==
    LET i == CHOOSE i \in 1..Len(graph.nodes) :
                 /\ \A j \in 1..Len(graph.nodes) :
                        degree(graph, graph.nodes[j]) <= degree(graph, graph.nodes[i])
                 /\ \A j \in (i + 1)..Len(graph.nodes) :
                        degree(graph, graph.nodes[j]) < degree(graph, graph.nodes[i])
    IN  graph.nodes[i]

\* max(degrees.keys(), key=...): the first node of maximum degree
MaxDegreeNode(graph) ==
    LET i == CHOOSE i \in 1..Len(graph.nodes) :
                 /\ \A j \in 1..Len(graph.nodes) :
                        degree(graph, graph.nodes[j]) <= degree(graph, graph.nodes[i])
                 /\ \A j \in 1..(i - 1) :
                        degree(graph, graph.nodes[j]) < degree(graph, graph.nodes[i])
    IN  graph.nodes[i]

\* the first node of ranking that is still in graph
RECURSIVE FirstPresent(_, _)
FirstPresent(ranking, graph) ==
    IF ranking = <<>> THEN None
    ELSE IF Head(ranking) \in NodeSet(graph) THEN Head(ranking)
    ELSE FirstPresent(Tail(ranking), graph)

\* HighestDegreeAttack.select_node
HighestDegreeAttack_select_node(self, graph) ==
    IF number_of_nodes(graph) = 0 THEN None
    ELSE IF self.recalculate THEN MaxDegreeNode(graph)
    ELSE IF self.initial_ranking = <<None>> THEN None
    ELSE FirstPresent(self.initial_ranking, graph)

\* RandomAttack.select_node: self._rng.choice(nodes)
RandomAttack_select_node(self, graph) ==
    IF number_of_nodes(graph) = 0 THEN None
    ELSE graph.nodes[(Draw(self.rng, self.pos) % Len(graph.nodes)) + 1]

\* select_node by class: the node returned and the instance afterwards
select_node(self, graph) ==
    CASE self.kind = "hda" ->
            [node |-> HighestDegreeAttack_select_node(self, graph), self |-> self]
      [] self.kind = "random" ->
            [node |-> RandomAttack_select_node(self, graph),
             self |-> IF number_of_nodes(graph) = 0 THEN self
                      ELSE [self EXCEPT !.pos = self.pos + 1]]
      [] OTHER ->
            [node |-> IF self.pos < Len(self.script) THEN self.script[self.pos + 1] ELSE None,
             self |-> [self EXCEPT !.pos = self.pos + 1]]

\* --------------------------------------------------------------- attack
\* the loop of BaseAttack.attack from iteration st.step on
RECURSIVE AttackLoop(_, _)

\* a body that goes on to the next iteration when select_node answers None
AttackStepAsksAgain(st, sel, budget) ==
    IF sel.node = None
    THEN AttackLoop([st EXCEPT !.self = sel.self, !.step = @ + 1], budget)
    ELSE IF sel.node \notin NodeSet(st.g)
    THEN [st EXCEPT !.self = sel.self, !.raised = "NetworkXError"]
    ELSE AttackLoop([st EXCEPT
                        !.self = sel.self,
                        !.g = remove_node(@, sel.node),
                        !.attack_sequence = Append(@, sel.node),
                        !.removal_fractions =
                            Append(@, Rat(Len(st.attack_sequence) + 1, st.initial_nodes)),
                        !.lcc_values =
                            Append(@, BaseAttack_compute_lcc_ratio(remove_node(st.g, sel.node),
                                                                   st.initial_nodes)),
                        !.step = @ + 1],
                    budget)

\* the body of the loop once select_node has answered sel
AttackStep(st, sel, budget) ==
    IF sel.node = None THEN [st EXCEPT !.self = sel.self]
    ELSE IF sel.node \notin NodeSet(st.g)
    THEN [st EXCEPT !.self = sel.self, !.raised = "NetworkXError"]
    ELSE AttackLoop([st EXCEPT
                        !.self = sel.self,
                        !.g = remove_node(@, sel.node),
                        !.attack_sequence = Append(@, sel.node),
                        !.removal_fractions =
                            Append(@, Rat(Len(st.attack_sequence) + 1, st.initial_nodes)),
                        !.lcc_values =
                            Append(@, BaseAttack_compute_lcc_ratio(remove_node(st.g, sel.node),
                                                                   st.initial_nodes)),
                        !.step = @ + 1],
                    budget)

\* a loop that runs one iteration more than budget
AttackLoopOnceMore(st, budget) ==
    IF st.step > budget \/ number_of_nodes(st.g) = 0 THEN st
    ELSE AttackStep(st, select_node(st.self, st.g), budget)

AttackLoop(st, budget) ==
    IF st.step >= budget \/ number_of_nodes(st.g) = 0 THEN st
    ELSE AttackStep(st, select_node(st.self, st.g), budget)

\* the AttackResult as constructed, r_res=0.0 and collapse_fraction=None
AttackResult(self, graph, st, budget, graph_name, collapse_threshold) ==
    [algorithm_name |-> self.name,
     graph_name |-> graph_name,
     attack_sequence |-> st.attack_sequence,
     removal_fractions |-> st.removal_fractions,
     lcc_values |-> st.lcc_values,
     r_res |-> Zero,
     collapse_threshold |-> collapse_threshold,
     collapse_fraction |-> NoneR,
     initial_nodes |-> number_of_nodes(graph),
     initial_edges |-> number_of_edges(graph),
     budget |-> budget]

\* the end of BaseAttack.attack once the loop has left st, result being the
\* AttackResult as constructed
AttackOutcome(graph, st, result, collapse_threshold) ==
    [raised |-> st.raised,
     result |-> [result EXCEPT
                    !.r_res = AttackResult_compute_r_res(result),
                    !.collapse_fraction =
                        AttackResult_find_collapse_point(result, collapse_threshold)],
     self |-> st.self,
     graph |-> AfterCall(graph, st.g)]

\* the working state of BaseAttack.attack before the loop, g being graph.copy()
AttackStart(self, g) ==
    [self |-> self, g |-> g, initial_nodes |-> number_of_nodes(g),
     attack_sequence |-> <<>>,
     removal_fractions |-> <<Zero>>,
     lcc_values |-> <<BaseAttack_compute_lcc_ratio(g, number_of_nodes(g))>>,
     step |-> 0, raised |-> "no"]

\* BaseAttack.attack after the loop has left st
AttackEnd(self, graph, st, budget, graph_name, collapse_threshold) ==
    AttackOutcome(graph, st,
                  AttackResult(self, graph, st, budget, graph_name, collapse_threshold),
                  collapse_threshold)

\* BaseAttack.attack: the outcome (raised or the AttackResult), the instance
\* and the caller's graph after the call
BaseAttack_attack(self, graph, budget, graph_name, collapse_threshold) ==
    AttackEnd(self, graph, AttackLoop(AttackStart(self, copy(graph)), budget),
              budget, graph_name, collapse_threshold)

\* sorted(degrees.keys(), key=lambda n: degrees[n], reverse=True): stable
RECURSIVE InsertByDegreeDesc(_, _, _)
InsertByDegreeDesc(sorted, n, graph) ==
    IF sorted = <<>> THEN <<n>>
    ELSE IF degree(graph, Head(sorted)) >= degree(graph, n)
    THEN <<Head(sorted)>> \o InsertByDegreeDesc(Tail(sorted), n, graph)
    ELSE <<n>> \o sorted

RECURSIVE SortedByDegreeDesc(_, _)
SortedByDegreeDesc(nodes, graph) ==
    IF nodes = <<>> THEN <<>>
    ELSE InsertByDegreeDesc(SortedByDegreeDesc(SubSeq(nodes, 1, Len(nodes) - 1), graph),
                            nodes[Len(nodes)], graph)

\* an attack that ranks only when the instance holds no ranking yet
AttackWithRankingKept(self, graph, budget, graph_name, collapse_threshold) ==
    BaseAttack_attack(IF ~self.recalculate /\ self.initial_ranking = <<None>>
                      THEN [self EXCEPT !.initial_ranking =
                                            SortedByDegreeDesc(graph.nodes, graph)]
                      ELSE self,
                      graph, budget, graph_name, collapse_threshold)

\* HighestDegreeAttack.attack
HighestDegreeAttack_attack(self, graph, budget, graph_name, collapse_threshold) ==
    BaseAttack_attack(IF ~self.recalculate
                      THEN [self EXCEPT !.initial_ranking =
                                            SortedByDegreeDesc(graph.nodes, graph)]
                      ELSE self,
                      graph, budget, graph_name, collapse_threshold)

\* attack, dispatched on the class of self
attack(self, graph, budget, graph_name, collapse_threshold) ==
    IF self.kind = "hda"
    THEN HighestDegreeAttack_attack(self, graph, budget, graph_name, collapse_threshold)
    ELSE BaseAttack_attack(self, graph, budget, graph_name, collapse_threshold)

\* ----------------------------------------------- RandomAttack, many runs
\* self.seed + run_idx if self.seed else run_idx
RunSeed(self, run_idx) ==
    IF self.seed # None /\ self.seed # 0 THEN self.seed + run_idx ELSE run_idx

\* the for loop of attack_multiple_runs from run_idx on
RECURSIVE MultiRunLoop(_, _, _, _, _, _, _)

\* the rest of the loop once run run_idx has returned r
MultiRunStep(st, r, tbl, budget, num_runs, graph_name, collapse_threshold, run_idx) ==
    MultiRunLoop([self |-> r.self,
                  graph |-> r.graph,
                  raised |-> r.raised,
                  seeds |-> Append(st.seeds, r.self.seed),
                  all_results |-> IF r.raised = "no"
                                  THEN Append(st.all_results, r.result)
                                  ELSE st.all_results],
                 tbl, budget, num_runs, graph_name, collapse_threshold, run_idx + 1)

MultiRunLoop(st, tbl, budget, num_runs, graph_name, collapse_threshold, run_idx) ==
    IF run_idx >= num_runs \/ st.raised # "no" THEN st
    ELSE MultiRunStep(st,
                      attack(set_seed(st.self, tbl, RunSeed(st.self, run_idx)), st.graph,
                             budget, <<graph_name, "_run", run_idx>>, collapse_threshold),
                      tbl, budget, num_runs, graph_name, collapse_threshold, run_idx)

\* padding that appends one point too many
PaddedOnceMore(curve, max_len) ==
    [k \in 1..(max_len + 1) |-> IF k <= Len(curve) THEN curve[k] ELSE curve[Len(curve)]]

\* padding with 0.0 instead of the curve's final value
PaddedWithZero(curve, max_len) ==
    [k \in 1..max_len |-> IF k <= Len(curve) THEN curve[k] ELSE Zero]

\* curve + [curve[-1]] * (max_len - len(curve))
Padded(curve, max_len) ==
    [k \in 1..max_len |-> IF k <= Len(curve) THEN curve[k] ELSE curve[Len(curve)]]

\* np.mean of a non-empty list
Mean(xs) == RatDiv(SeqSum(xs), <<Len(xs), 1>>)

\* np.mean(padded_curves, axis=0)
MeanCurve(padded_curves) ==
    [k \in 1..Len(padded_curves[1]) |->
        Mean([i \in 1..Len(padded_curves) |-> padded_curves[i][k]])]

\* the columns of all_results
LccCurves(all_results) == [i \in 1..Len(all_results) |-> all_results[i].lcc_values]
RRes(all_results) == [i \in 1..Len(all_results) |-> all_results[i].r_res]
CollapseFractions(all_results) ==
    SelectSeq([i \in 1..Len(all_results) |-> all_results[i].collapse_fraction],
              LAMBDA c : c # NoneR)

\* np.mean(all_collapse_fractions) if all_collapse_fractions else None
MeanOrNone(xs) == IF xs # <<>> THEN Mean(xs) ELSE NoneR

\* max(len(curve) for curve in all_lcc_curves), for a non-empty list
MaxLen(curves) == SetMax({Len(curves[i]) : i \in 1..Len(curves)})

\* the curves padded to max_len
PaddedCurves(curves, max_len) == [i \in 1..Len(curves) |-> Padded(curves[i], max_len)]

\* avg_lcc_curve: the curves padded to the longest one, then averaged
avg_lcc_curve(all_lcc_curves) ==
    MeanCurve(PaddedCurves(all_lcc_curves, MaxLen(all_lcc_curves)))

\* avg_result: the object all_results[0] with its fields overwritten
AverageResult(all_results, num_runs, graph_name) ==
    [all_results[1] EXCEPT
        !.algorithm_name = <<"RandomAttack_avg", num_runs>>,
        !.graph_name = graph_name,
        !.lcc_values = avg_lcc_curve(LccCurves(all_results)),
        !.r_res = Mean(RRes(all_results)),
        !.collapse_fraction = MeanOrNone(CollapseFractions(all_results))]

\* the dictionary returned, avg_result being the object all_results[0]
MultiRunDict(st, avg_result) ==
    [raised |-> "no", self |-> st.self, graph |-> st.graph, seeds |-> st.seeds,
     average_result |-> avg_result,
     all_results |-> [st.all_results EXCEPT ![1] = avg_result],
     avg_r_res |-> Mean(RRes(st.all_results)),
     avg_collapse_fraction |-> MeanOrNone(CollapseFractions(st.all_results))]

\* attack_multiple_runs after its loop has left st
MultiRunEnd(st, num_runs, graph_name) ==
    IF st.raised # "no"
    THEN [raised |-> st.raised, self |-> st.self, graph |-> st.graph, seeds |-> st.seeds]
    ELSE IF st.all_results = <<>>
    THEN [raised |-> "ValueError", self |-> st.self, graph |-> st.graph, seeds |-> st.seeds]
    ELSE MultiRunDict(st, AverageResult(st.all_results, num_runs, graph_name))

\* RandomAttack.attack_multiple_runs (the standard deviations are left out);
\* seeds lists the seeds set_seed was called with, run by run
attack_multiple_runs(self, tbl, graph, budget, num_runs, graph_name, collapse_threshold) ==
    MultiRunEnd(MultiRunLoop([self |-> self, graph |-> graph, raised |-> "no",
                              seeds |-> <<>>, all_results |-> <<>>],
                             tbl, budget, num_runs, graph_name, collapse_threshold, 0),
                num_runs, graph_name)

\* ----------------------------------------------------- UnifiedEvaluator
\* UnifiedEvaluator.__init__
UnifiedEvaluator(collapse_threshold, random_runs, random_seed) ==
    [collapse_threshold |-> collapse_threshold, random_runs |-> random_runs,
     random_seed |-> random_seed]

\* a ratio of 1.0 for the empty graph
FullWhenEmpty(graph, initial_nodes) ==
    IF number_of_nodes(graph) = 0 THEN One
    ELSE Rat(largest_cc_size(graph), initial_nodes)

\* UnifiedEvaluator._compute_lcc_ratio
UnifiedEvaluator_compute_lcc_ratio(graph, initial_nodes) ==
    IF number_of_nodes(graph) = 0 THEN Zero
    ELSE Rat(largest_cc_size(graph), initial_nodes)

\* ResilienceMetrics.compute_lcc_ratio
ResilienceMetrics_compute_lcc_ratio(graph) ==
    IF number_of_nodes(graph) = 0 THEN Zero
    ELSE Rat(largest_cc_size(graph), number_of_nodes(graph))

SeqMin(a, b) == IF a < b THEN a ELSE b

\* UnifiedEvaluator._compute_r_res
UnifiedEvaluator_compute_r_res(removal_fractions, lcc_values) ==
    IF Len(removal_fractions) < 2 \/ Len(lcc_values) < 2 THEN Zero
    ELSE LET n == SeqMin(Len(removal_fractions), Len(lcc_values))
         IN  trapezoid(SubSeq(lcc_values, 1, n), SubSeq(removal_fractions, 1, n))

RECURSIVE evaluator_collapse_from(_, _, _, _)
evaluator_collapse_from(self, lcc_values, removal_fractions, i) ==
    IF i > Len(lcc_values) THEN NoneR
    ELSE IF RatLt(lcc_values[i], self.collapse_threshold)
    THEN IF RatLe(self.collapse_threshold, lcc_values[i - 1]) /\ lcc_values[i - 1] # lcc_values[i]
         THEN LET y1 == lcc_values[i - 1]
                  y2 == lcc_values[i]
                  x1 == removal_fractions[i - 1]
                  x2 == removal_fractions[i]
                  t == RatDiv(RatSub(y1, self.collapse_threshold), RatSub(y1, y2))
              IN  RatAdd(x1, RatMul(t, RatSub(x2, x1)))
         ELSE removal_fractions[i]
    ELSE evaluator_collapse_from(self, lcc_values, removal_fractions, i + 1)

\* UnifiedEvaluator._find_collapse_point
UnifiedEvaluator_find_collapse_point(self, lcc_values, removal_fractions) ==
    evaluator_collapse_from(self, lcc_values, removal_fractions, 2)

\* the fraction of nodes left instead of the fraction removed
RemainingFraction(initial_nodes, g) == Rat(number_of_nodes(g), initial_nodes)

\* (initial_nodes - g.number_of_nodes()) / initial_nodes
RemovedFraction(initial_nodes, g) ==
    Rat(initial_nodes - number_of_nodes(g), initial_nodes)

\* the for loop of evaluate_dismant over the rest of the sequence
RECURSIVE DismantLoop(_, _)

\* the body of the loop for node, g being the working copy after `if node in g`
DismantStep(st, g, rest) ==
    IF st.initial_nodes = 0
    THEN [st EXCEPT !.g = g, !.raised = "ZeroDivisionError"]
    ELSE DismantLoop(
            [st EXCEPT !.g = g,
                       !.removal_fractions = Append(@, RemovedFraction(st.initial_nodes, g)),
                       !.lcc_curve =
                           Append(@, UnifiedEvaluator_compute_lcc_ratio(g, st.initial_nodes))],
            Tail(rest))

DismantLoop(st, rest) ==
    IF rest = <<>> \/ st.raised # "no" THEN st
    ELSE DismantStep(st,
                     IF Head(rest) \in NodeSet(st.g) THEN remove_node(st.g, Head(rest))
                     ELSE st.g,
                     rest)

\* the working state of evaluate_dismant before the loop, g being graph.copy()
DismantStart(g) ==
    [g |-> g, initial_nodes |-> number_of_nodes(g), raised |-> "no",
     removal_fractions |-> <<Zero>>,
     lcc_curve |-> <<UnifiedEvaluator_compute_lcc_ratio(g, number_of_nodes(g))>>]

\* evaluate_dismant after the loop has left st
DismantEnd(self, graph, st, attack_sequence, method_name, graph_name) ==
    IF st.raised # "no"
    THEN [raised |-> st.raised, graph |-> AfterCall(graph, st.g)]
    ELSE [raised |-> "no", graph |-> AfterCall(graph, st.g),
          result |-> [method_name |-> method_name,
                      graph_name |-> graph_name,
                      r_res |-> UnifiedEvaluator_compute_r_res(st.removal_fractions,
                                                               st.lcc_curve),
                      lcc_curve |-> st.lcc_curve,
                      removal_fractions |-> st.removal_fractions,
                      attack_sequence |-> attack_sequence,
                      collapse_fraction |->
                          UnifiedEvaluator_find_collapse_point(self, st.lcc_curve,
                                                               st.removal_fractions),
                      collapse_threshold |-> self.collapse_threshold,
                      initial_nodes |-> number_of_nodes(graph),
                      initial_edges |-> number_of_edges(graph),
                      budget |-> Len(attack_sequence)]]

\* UnifiedEvaluator.evaluate_dismant
evaluate_dismant(self, graph, attack_sequence, method_name, graph_name) ==
    DismantEnd(self, graph, DismantLoop(DismantStart(copy(graph)), attack_sequence),
               attack_sequence, method_name, graph_name)

\* collapse_threshold: float = 0.2, the default of BaseAttack.attack
DefaultThreshold == <<1, 5>>

\* budget or int(graph.number_of_nodes() * 0.3)
DefaultBudget(budget, graph) ==
    IF budget # None /\ budget # 0 THEN budget ELSE (3 * number_of_nodes(graph)) \div 10

\* the second of two caller's graphs after a callee returned the first as g:
\* the same object when both names denote one object
Other(other, first, g) == IF other.obj = first.obj THEN g ELSE other

\* _compute_r_res of the curve of an AttackResult
CurveRRes(result) ==
    UnifiedEvaluator_compute_r_res(result.removal_fractions, result.lcc_values)

\* the ratio r_tar / r_original_tar instead of the relative gain
ImprovementRatio(r_tar, r_original_tar) ==
    IF RatLt(Zero, r_original_tar) THEN RatDiv(r_tar, r_original_tar) ELSE Zero

\* (r_tar - r_original_tar) / r_original_tar if r_original_tar > 0 else 0.0
Improvement(r_tar, r_original_tar) ==
    IF RatLt(Zero, r_original_tar)
    THEN RatDiv(RatSub(r_tar, r_original_tar), r_original_tar)
    ELSE Zero

\* evaluate_construct from the ConstructResult on: c1..c4 are the outcomes of
\* the four stress tests, orig and rec the caller's graphs after them
ConstructEnd(self, orig, rec, added_edges, method_name, graph_name, c1, c2, c3, c4) ==
    IF c4.raised # "no"
    THEN [raised |-> c4.raised, original_graph |-> orig, reconstructed_graph |-> rec]
    ELSE [raised |-> "no", original_graph |-> orig, reconstructed_graph |-> rec,
          result |-> [method_name |-> method_name,
                      graph_name |-> graph_name,
                      r_tar |-> CurveRRes(c1.result),
                      r_ran |-> CurveRRes(c2.average_result),
                      r_improvement |-> Improvement(CurveRRes(c1.result),
                                                    CurveRRes(c3.result)),
                      hda_lcc_curve |-> c1.result.lcc_values,
                      random_lcc_curve |-> c2.average_result.lcc_values,
                      hda_removal_fractions |-> c1.result.removal_fractions,
                      random_removal_fractions |-> c2.average_result.removal_fractions,
                      added_edges |-> added_edges,
                      r_original_tar |-> CurveRRes(c3.result),
                      r_original_ran |-> CurveRRes(c4.average_result),
                      initial_nodes |-> number_of_nodes(orig),
                      initial_edges |-> number_of_edges(orig),
                      final_edges |-> number_of_edges(rec),
                      budget |-> Len(added_edges)]]

\* evaluate_construct from random_attack.attack_multiple_runs(original_graph) on
ConstructOriginalRandom(self, tbl, orig, rec, added_edges, method_name, graph_name, attack_budget, c1, c2, c3, c4) ==
    ConstructEnd(self, c4.graph, Other(rec, orig, c4.graph), added_edges, method_name,
                 graph_name, c1, c2, c3, c4)

\* evaluate_construct from hda.attack(original_graph) on
ConstructOriginalHda(self, tbl, orig, rec, added_edges, method_name, graph_name, attack_budget, c1, c2, c3) ==
    ConstructOriginalRandom(self, tbl, c3.graph, Other(rec, orig, c3.graph), added_edges,
                            method_name, graph_name, attack_budget, c1, c2, c3,
                            attack_multiple_runs(c2.self, tbl, c3.graph, attack_budget,
                                                 self.random_runs, graph_name,
                                                 DefaultThreshold))

\* evaluate_construct from random_attack.attack_multiple_runs(reconstructed_graph) on
ConstructRandom(self, tbl, orig, rec, added_edges, method_name, graph_name, attack_budget, c1, c2) ==
    IF c2.raised # "no"
    THEN [raised |-> c2.raised, original_graph |-> Other(orig, rec, c2.graph),
          reconstructed_graph |-> c2.graph]
    ELSE ConstructOriginalHda(self, tbl, Other(orig, rec, c2.graph), c2.graph, added_edges,
                              method_name, graph_name, attack_budget, c1, c2,
                              attack(c1.self, Other(orig, rec, c2.graph), attack_budget,
                                     graph_name, DefaultThreshold))

\* evaluate_construct from hda.attack(reconstructed_graph) on
ConstructHda(self, tbl, orig, rec, added_edges, method_name, graph_name, attack_budget, c1) ==
    ConstructRandom(self, tbl, Other(orig, rec, c1.graph), c1.graph, added_edges,
                    method_name, graph_name, attack_budget, c1,
                    attack_multiple_runs(RandomAttack(tbl, self.random_seed), tbl, c1.graph,
                                         attack_budget, self.random_runs, graph_name,
                                         self.collapse_threshold))

\* UnifiedEvaluator.evaluate_construct
evaluate_construct(self, tbl, original_graph, reconstructed_graph, added_edges, method_name, graph_name, attack_budget_arg) ==
    ConstructHda(self, tbl, original_graph, reconstructed_graph, added_edges, method_name,
                 graph_name, DefaultBudget(attack_budget_arg, reconstructed_graph),
                 attack(HighestDegreeAttack(TRUE), reconstructed_graph,
                        DefaultBudget(attack_budget_arg, reconstructed_graph), graph_name,
                        self.collapse_threshold))

\* ------------------------------------------- evaluation with baselines
\* attack_sequence[:budget], for budget >= 0
Prefix(seq, budget) == SubSeq(seq, 1, SeqMin(budget, Len(seq)))

\* a step of evaluate_dismant_with_baselines that is left out
Skipped(graph) == [raised |-> "no", graph |-> graph]

\* main_result = None
NoResult == [none |-> TRUE]

\* the entry of baselines for a result
Baseline(lcc_values, removal_fractions, collapse_fraction) ==
    [r_res |-> UnifiedEvaluator_compute_r_res(removal_fractions, lcc_values),
     collapse_fraction |-> collapse_fraction,
     lcc_curve |-> lcc_values,
     removal_fractions |-> removal_fractions]

\* baselines["HDA"]
HdaBaseline(self, h) ==
    Baseline(h.result.lcc_values, h.result.removal_fractions,
             AttackResult_find_collapse_point(h.result, self.collapse_threshold))

\* baselines["Random"] (std_r_res is left out)
RandomBaseline(rr) ==
    Baseline(rr.average_result.lcc_values, rr.average_result.removal_fractions,
             rr.average_result.collapse_fraction)

\* baselines: the entries of the baselines that were run
Baselines(self, include_hda, include_random, h, rr) ==
    IF include_hda /\ include_random
    THEN ("HDA" :> HdaBaseline(self, h)) @@ ("Random" :> RandomBaseline(rr))
    ELSE IF include_hda THEN ("HDA" :> HdaBaseline(self, h))
    ELSE IF include_random THEN ("Random" :> RandomBaseline(rr))
    ELSE <<>>

\* evaluate_dismant_with_baselines from the EvaluationResult on: main, h and rr
\* are the outcomes of evaluate_dismant, hda.attack and attack_multiple_runs;
\* random_results is the local variable of that name
BaselinesEnd(self, graph_name, has_main, include_hda, include_random, main, h, rr) ==
    IF rr.raised # "no"
    THEN [raised |-> rr.raised, graph |-> rr.graph]
    ELSE [raised |-> "no", graph |-> rr.graph,
          random_results |-> IF include_random THEN rr.all_results ELSE <<>>,
          result |-> [task_type |-> "dismant",
                      graph_name |-> graph_name,
                      dismant_result |-> IF has_main THEN main.result ELSE NoResult,
                      baseline_results |->
                          Baselines(self, include_hda, include_random, h, rr)]]

\* evaluate_dismant_with_baselines from `if include_random` on
BaselinesRandom(self, tbl, graph_name, budget, has_main, include_hda, include_random, main, h) ==
    IF include_random
    THEN BaselinesEnd(self, graph_name, has_main, include_hda, include_random, main, h,
                      attack_multiple_runs(RandomAttack(tbl, self.random_seed), tbl, h.graph,
                                           budget, self.random_runs, graph_name,
                                           self.collapse_threshold))
    ELSE BaselinesEnd(self, graph_name, has_main, include_hda, include_random, main, h,
                      Skipped(h.graph))

\* evaluate_dismant_with_baselines from `if include_hda` on
BaselinesHda(self, tbl, graph_name, budget, has_main, include_hda, include_random, main) ==
    IF main.raised # "no"
    THEN [raised |-> main.raised, graph |-> main.graph]
    ELSE IF include_hda
    THEN BaselinesRandom(self, tbl, graph_name, budget, has_main, include_hda,
                         include_random, main,
                         attack(HighestDegreeAttack(TRUE), main.graph, budget, graph_name,
                                self.collapse_threshold))
    ELSE BaselinesRandom(self, tbl, graph_name, budget, has_main, include_hda,
                         include_random, main, Skipped(main.graph))

\* evaluate_dismant_with_baselines from `if attack_sequence` on, budget being
\* budget or int(graph.number_of_nodes() * 0.3)
BaselinesMain(self, tbl, graph, attack_sequence, method_name, graph_name, budget, include_hda, include_random) ==
    IF attack_sequence # <<>>
    THEN BaselinesHda(self, tbl, graph_name, budget, TRUE, include_hda, include_random,
                      evaluate_dismant(self, graph, Prefix(attack_sequence, budget),
                                       method_name, graph_name))
    ELSE BaselinesHda(self, tbl, graph_name, budget, FALSE, include_hda, include_random,
                      Skipped(graph))

\* UnifiedEvaluator.evaluate_dismant_with_baselines; an attack_sequence of
\* None takes the path of the empty list
evaluate_dismant_with_baselines(self, tbl, graph, attack_sequence, method_name, graph_name, budget_arg, include_hda, include_random) ==
    BaselinesMain(self, tbl, graph, attack_sequence, method_name, graph_name,
                  DefaultBudget(budget_arg, graph), include_hda, include_random)

\* ----------------------------------------------- construction heuristics
\* max_attempts = budget * 100
AttemptsPerEdge == 100

\* random.sample(nodes, 2) for a raw draw: an ordered pair of distinct nodes
Sample2(nodes, raw) ==
    LET n == Len(nodes)
        k == raw % (n * (n - 1))
        i == k \div (n - 1)
        jj == k % (n - 1)
        j == IF jj >= i THEN jj + 1 ELSE jj
    IN  <<nodes[i + 1], nodes[j + 1]>>

\* the while loop of _random_construct; stream is the module-level generator.
\* idle counts the failed attempts since the last edge was added: after a
\* whole period of the stream without an edge every later attempt fails the
\* same way, and the loop runs on to max_attempts
RECURSIVE RandomConstructLoop(_, _, _, _, _, _)

\* a loop body that adds the sampled pair without looking for the edge
RandomConstructStepUnchecked(st, uv, nodes, stream, budget, max_attempts, idle) ==
    RandomConstructLoop([st EXCEPT !.g = add_edge(st.g, uv[1], uv[2]),
                                   !.added = Append(@, uv),
                                   !.attempts = @ + 1],
                        nodes, stream, budget, max_attempts, 0)

\* the body of the loop for the sampled pair uv
RandomConstructStep(st, uv, nodes, stream, budget, max_attempts, idle) ==
    IF ~has_edge(st.g, uv[1], uv[2])
    THEN RandomConstructLoop([st EXCEPT !.g = add_edge(st.g, uv[1], uv[2]),
                                        !.added = Append(@, uv),
                                        !.attempts = @ + 1],
                             nodes, stream, budget, max_attempts, 0)
    ELSE RandomConstructLoop([st EXCEPT !.attempts = @ + 1],
                             nodes, stream, budget, max_attempts, idle + 1)

RandomConstructLoop(st, nodes, stream, budget, max_attempts, idle) ==
    IF ~(Len(st.added) < budget /\ st.attempts < max_attempts) THEN st
    ELSE IF Len(nodes) < 2 THEN [st EXCEPT !.raised = "ValueError"]
    ELSE IF idle >= Len(stream) THEN [st EXCEPT !.attempts = max_attempts]
    ELSE RandomConstructStep(st, Sample2(nodes, Draw(stream, st.attempts)),
                             nodes, stream, budget, max_attempts, idle)

\* what a construction heuristic returns once its loop has left st
ConstructReturn(graph, st) ==
    [raised |-> st.raised, graph |-> AfterCall(graph, st.g),
     g |-> st.g, added |-> st.added, attempts |-> st.attempts]

\* UnifiedEvaluator._random_construct
random_construct(self, tbl, graph, budget) ==
    ConstructReturn(graph,
                    RandomConstructLoop([g |-> copy(graph), added |-> <<>>, attempts |-> 0,
                                         raised |-> "no"],
                                        graph.nodes, tbl[self.random_seed], budget,
                                        budget * AttemptsPerEdge, 0))

\* sorted(degrees.keys(), key=lambda n: degrees[n]): stable, ascending
RECURSIVE InsertByDegreeAsc(_, _, _)
InsertByDegreeAsc(sorted, n, graph) ==
    IF sorted = <<>> THEN <<n>>
    ELSE IF degree(graph, Head(sorted)) <= degree(graph, n)
    THEN <<Head(sorted)>> \o InsertByDegreeAsc(Tail(sorted), n, graph)
    ELSE <<n>> \o sorted

RECURSIVE SortedByDegreeAsc(_, _)
SortedByDegreeAsc(nodes, graph) ==
    IF nodes = <<>> THEN <<>>
    ELSE InsertByDegreeAsc(SortedByDegreeAsc(SubSeq(nodes, 1, Len(nodes) - 1), graph),
                           nodes[Len(nodes)], graph)

\* for i in range(min(20, len(sorted_nodes)))
LowDegreePool == 20

\* the first pair i < j of all the nodes without an edge, or <<>>
FirstFreePairAnywhere(g, sorted_nodes) ==
    LET m == Len(sorted_nodes)
        free == {p \in (1..m) \X (1..m) :
                    p[1] < p[2] /\ ~has_edge(g, sorted_nodes[p[1]], sorted_nodes[p[2]])}
    IN  IF free = {} THEN <<>>
        ELSE LET p == CHOOSE p \in free : \A q \in free :
                          p[1] < q[1] \/ (p[1] = q[1] /\ p[2] <= q[2])
             IN  <<sorted_nodes[p[1]], sorted_nodes[p[2]]>>

\* the first pair i < j of the pool without an edge, or <<>>
FirstFreePair(g, sorted_nodes) ==
    LET m == SeqMin(LowDegreePool, Len(sorted_nodes))
        free == {p \in (1..m) \X (1..m) :
                    p[1] < p[2] /\ ~has_edge(g, sorted_nodes[p[1]], sorted_nodes[p[2]])}
    IN  IF free = {} THEN <<>>
        ELSE LET p == CHOOSE p \in free : \A q \in free :
                          p[1] < q[1] \/ (p[1] = q[1] /\ p[2] <= q[2])
             IN  <<sorted_nodes[p[1]], sorted_nodes[p[2]]>>

\* the for loop of _degree_based_construct with `left` iterations to go
RECURSIVE DegreeConstructLoop(_, _)

\* the body of the loop: uv is the pair found, <<>> when there is none
DegreeConstructStep(st, uv, left) ==
    IF uv = <<>> THEN st
    ELSE DegreeConstructLoop([st EXCEPT !.g = add_edge(st.g, uv[1], uv[2]),
                                        !.added = Append(@, uv)],
                             left - 1)

DegreeConstructLoop(st, left) ==
    IF left <= 0 THEN st
    ELSE DegreeConstructStep(st, FirstFreePair(st.g, SortedByDegreeAsc(st.g.nodes, st.g)),
                             left)

\* UnifiedEvaluator._degree_based_construct
degree_based_construct(self, graph, budget) ==
    ConstructReturn(graph,
                    DegreeConstructLoop([g |-> copy(graph), added |-> <<>>, attempts |-> 0,
                                         raised |-> "no"],
                                        budget))

\* ============================================== NetworkEnvironment
\* GraphState, the snapshot kept in the history (resilience_score is always 0.0
\* and removed_nodes, added_edges are always empty)
GraphState(step, num_nodes, num_edges, lcc_size) ==
    [step |-> step, num_nodes |-> num_nodes, num_edges |-> num_edges,
     largest_cc_size |-> lcc_size]

\* NetworkEnvironment._create_state_snapshot
create_state_snapshot(self) ==
    GraphState(self.current_step,
               number_of_nodes(self.graph),
               number_of_edges(self.graph),
               IF number_of_nodes(self.graph) > 0 THEN largest_cc_size(self.graph) ELSE 0)

\* NetworkEnvironment._record_state
record_state(self) ==
    [self EXCEPT !.history = Append(self.history, create_state_snapshot(self))]

\* NetworkEnvironment(graph, task_type, budget)
NetworkEnvironment(G) ==
    record_state([graph |-> copy(G),
                  initial_graph |-> copy(G),
                  current_step |-> 0,
                  history |-> <<>>])

\* reset without the snapshot of the restored graph
ResetWithoutSnapshot(self) ==
    [self EXCEPT !.graph = copy(self.initial_graph),
                 !.current_step = 0,
                 !.history = <<>>]

\* NetworkEnvironment.reset
NetworkEnvironment_reset(self) ==
    record_state([self EXCEPT !.graph = copy(self.initial_graph),
                              !.current_step = 0,
                              !.history = <<>>])

\* NetworkEnvironment.remove_node
NetworkEnvironment_remove_node(self, node_id) ==
    IF node_id \in NodeSet(self.graph)
    THEN record_state([self EXCEPT !.graph = remove_node(self.graph, node_id),
                                   !.current_step = self.current_step + 1])
    ELSE self

\* the guard of NetworkEnvironment.add_edge
AddsEdge(self, u, v) ==
    /\ u \in NodeSet(self.graph)
    /\ v \in NodeSet(self.graph)
    /\ u # v

\* NetworkEnvironment.add_edge
NetworkEnvironment_add_edge(self, u, v) ==
    IF AddsEdge(self, u, v)
    THEN record_state([self EXCEPT !.graph = add_edge(self.graph, u, v),
                                   !.current_step = self.current_step + 1])
    ELSE self

\* ===================================== generators held by instances
\* the module-level generator of random: seeded by the interpreter at start
ModuleRandom(stream) == [seeded |-> FALSE, stream |-> stream, pos |-> 0]

\* random.seed(seed)
random_module_seed(global, tbl, seed) == [seeded |-> TRUE, stream |-> tbl[seed], pos |-> 0]

\* random.sample(nodes, 2): one draw from the module-level generator
random_sample(global) == [global EXCEPT !.pos = @ + 1]

\* a select_node that draws from the module-level generator
SelectFromModuleRandom(self, G, global) ==
    IF number_of_nodes(G) = 0 THEN [node |-> None, self |-> self, global |-> global]
    ELSE [node |-> G.nodes[(Draw(global.stream, global.pos) % Len(G.nodes)) + 1],
          self |-> self,
          global |-> random_sample(global)]

\* RandomAttack.select_node while the module-level generator is global: the
\* node, the instance and the module-level generator afterwards
SelectFromInstance(self, G, global) ==
    [node |-> select_node(self, G).node,
     self |-> select_node(self, G).self,
     global |-> global]

\* ================================================================ state
VARIABLES
    graph,      \* the caller's graph
    recon,      \* the caller's reconstructed graph (the object graph itself at first)
    added,      \* the edges added to obtain recon
    attacker,   \* the caller's strategy instance
    calls,      \* attack calls made on attacker
    rng,        \* the generator streams seen so far, by seed
    op,         \* the last operation called
    args,       \* its arguments
    ret,        \* its outcome
    before,     \* the caller's graphs when it was called
    env,        \* the caller's NetworkEnvironment
    instances,  \* RandomAttack instances used side by side, with their calls
    global_random   \* the generator of the random module

vars == <<graph, recon, added, attacker, calls, rng, op, args, ret, before, env,
          instances, global_random>>

\* ----------------------------------------------------------- input sets
Ascending(k) == [i \in 1..k |-> i - 1]
Descending(k) == [i \in 1..k |-> k - i]

PossibleEdges(k) == {{u, v} : u, v \in 0..(k - 1)} \ {{u} : u \in 0..(k - 1)}

\* simple graphs on nodes 0..k-1, k <= MaxNodes, inserted in either order
SmallGraphs ==
    UNION {{[obj |-> "G", nodes |-> ns, edges |-> es] :
                ns \in {Ascending(k), Descending(k)}, es \in SUBSET PossibleEdges(k)} :
           k \in 0..MaxNodes}

\* the path graph 0-1-2-3-4 of the end-to-end scenario
PathGraph ==
    [obj |-> "G", nodes |-> <<0, 1, 2, 3, 4>>, edges |-> {{0, 1}, {1, 2}, {2, 3}, {3, 4}}]

InputGraphs == SmallGraphs \cup {PathGraph}

\* a node identifier that no input graph contains
Absent == MaxNodes + 5

Thresholds == {DefaultThreshold, <<1, 2>>}
Budgets == 0..MaxBudget
Streams == [1..StreamLen -> 0..(RngRange - 1)]

\* the streams told apart by their first `draws` draws
StreamsOf(draws) ==
    IF draws = 0 THEN {<<0>>}
    ELSE [1..SeqMin(draws, StreamLen) -> 0..(RngRange - 1)]

\* the evaluator instances
Evaluators ==
    {UnifiedEvaluator(DefaultThreshold, random_runs, random_seed) :
        random_runs \in 0..MaxRuns, random_seed \in 0..MaxSeed}

\* sequences without repetition over S of length at most n
DistinctSeqs(S, n) == {q \in SeqsUpTo(S, n) : Cardinality(Range(q)) = Len(q)}

\* the answers of an arbitrary select_node that matter: distinct nodes of the
\* graph, then possibly None, a node never in the graph or a node removed before
Scripts(G) ==
    LET ps == DistinctSeqs(NodeSet(G), MaxBudget)
    IN  ps \cup {p \o <<t>> : p \in {q \in ps : Len(q) < MaxBudget}, t \in {None, Absent}}
           \cup {p \o <<p[1]>> : p \in {q \in ps : Len(q) < MaxBudget /\ Len(q) > 0}}

NoAttacker == Attacker("none", "none")
NoRet == [raised |-> "no"]
NoArgs == [budget |-> 0]
Snapshot == [graph |-> graph, recon |-> recon]
EmptyTable == [s \in {} |-> <<>>]

\* the caller holds no environment
NoEnv == [none |-> TRUE]

\* the generator of the random module, not looked at
NoModuleRandom == ModuleRandom(<<0>>)

Init ==
    /\ graph \in InputGraphs
    /\ recon = graph
    /\ added = <<>>
    /\ attacker = NoAttacker
    /\ calls = 0
    /\ rng = EmptyTable
    /\ op = "init"
    /\ args = NoArgs
    /\ ret = NoRet
    /\ before = [graph |-> graph, recon |-> graph]
    /\ env = NoEnv
    /\ instances = <<>>
    /\ global_random = NoModuleRandom

\* -------------------------------------------------------------- actions
\* the caller keeps no strategy instance
DropAttacker ==
    /\ attacker' = NoAttacker
    /\ calls' = 0

\* the caller keeps no reconstructed graph
DropRecon ==
    /\ recon' = graph
    /\ added' = <<>>

\* HighestDegreeAttack(recalculate)
NewHighestDegreeAttack ==
    /\ op = "init"
    /\ UNCHANGED <<env, instances, global_random>>
    /\ \E recalculate \in BOOLEAN :
        attacker' = HighestDegreeAttack(recalculate)
    /\ calls' = 0
    /\ rng' = EmptyTable
    /\ op' = "new"
    /\ args' = NoArgs
    /\ ret' = NoRet
    /\ before' = Snapshot
    /\ UNCHANGED <<graph, recon, added>>

\* RandomAttack(seed)
NewRandomAttack ==
    /\ op = "init"
    /\ UNCHANGED <<env, instances, global_random>>
    /\ \E seed \in 0..MaxSeed, stream \in Streams :
        /\ rng' = (seed :> stream)
        /\ attacker' = RandomAttack(rng', seed)
    /\ calls' = 0
    /\ op' = "new"
    /\ args' = NoArgs
    /\ ret' = NoRet
    /\ before' = Snapshot
    /\ UNCHANGED <<graph, recon, added>>

\* an instance of another subclass of BaseAttack
NewScriptedAttack ==
    /\ op = "init"
    /\ UNCHANGED <<env, instances, global_random>>
    /\ \E script \in Scripts(graph) :
        attacker' = ScriptedAttack(script)
    /\ calls' = 0
    /\ rng' = EmptyTable
    /\ op' = "new"
    /\ args' = NoArgs
    /\ ret' = NoRet
    /\ before' = Snapshot
    /\ UNCHANGED <<graph, recon, added>>

\* the effect of attacker.attack(graph, budget, collapse_threshold=...)
DoAttack(budget, collapse_threshold) ==
    /\ \E r \in {attack(attacker, graph, budget, <<"unknown">>, collapse_threshold)} :
           /\ attacker' = r.self
           /\ graph' = r.graph
           /\ recon' = Other(recon, graph, r.graph)
           /\ ret' = IF r.raised = "no" THEN [raised |-> "no", result |-> r.result]
                     ELSE [raised |-> r.raised]
    /\ calls' = calls + 1
    /\ op' = "attack"
    /\ args' = [budget |-> budget, collapse_threshold |-> collapse_threshold]
    /\ before' = Snapshot
    /\ UNCHANGED <<added, rng>>

\* the first attack call on a new instance
Attack ==
    /\ op = "new"
    /\ UNCHANGED <<env, instances, global_random>>
    /\ \E budget \in Budgets, collapse_threshold \in Thresholds :
        DoAttack(budget, collapse_threshold)

\* the same attack call once more on the same instance
AttackAgain ==
    /\ op = "attack"
    /\ UNCHANGED <<env, instances, global_random>>
    /\ calls < MaxCalls
    /\ DoAttack(args.budget, args.collapse_threshold)

\* the seeds set_seed is called with during num_runs runs
RECURSIVE RunSeeds(_, _, _)
RunSeeds(self, num_runs, run_idx) ==
    IF run_idx >= num_runs THEN {}
    ELSE LET s == RunSeed(self, run_idx)
         IN  {s} \cup RunSeeds([self EXCEPT !.seed = s], num_runs, run_idx + 1)

\* self.seed after num_runs runs
RECURSIVE SeedAfterRuns(_, _, _)
SeedAfterRuns(self, num_runs, run_idx) ==
    IF run_idx >= num_runs THEN self.seed
    ELSE SeedAfterRuns([self EXCEPT !.seed = RunSeed(self, run_idx)], num_runs, run_idx + 1)

\* the tables that extend known by a stream for every seed of needed
Tables(known, needed, draws) ==
    {known @@ ext : ext \in [needed \ DOMAIN known -> StreamsOf(draws)]}

\* the effect of attacker.attack_multiple_runs(graph, budget, num_runs)
DoAttackMultipleRuns(budget, num_runs) ==
    /\ \E tbl \in Tables(rng, RunSeeds(attacker, num_runs, 0),
                         SeqMin(budget, number_of_nodes(graph))) :
       \E r \in {attack_multiple_runs(attacker, tbl, graph, budget, num_runs,
                                       <<"unknown">>, DefaultThreshold)} :
              /\ rng' = tbl
              /\ attacker' = r.self
              /\ graph' = r.graph
              /\ recon' = Other(recon, graph, r.graph)
              /\ ret' = IF r.raised = "no"
                        THEN [raised |-> "no",
                              average_result |-> r.average_result,
                              all_results |-> r.all_results,
                              avg_r_res |-> r.avg_r_res,
                              avg_collapse_fraction |-> r.avg_collapse_fraction,
                              seeds |-> r.seeds]
                        ELSE [raised |-> r.raised, seeds |-> r.seeds]
    /\ args' = [budget |-> budget, num_runs |-> num_runs,
                collapse_threshold |-> DefaultThreshold, seed |-> attacker.seed]
    /\ calls' = calls + 1
    /\ op' = "attack_multiple_runs"
    /\ before' = Snapshot
    /\ UNCHANGED added

\* attacker.attack_multiple_runs(graph, budget, num_runs)
AttackMultipleRuns ==
    /\ op = "new"
    /\ UNCHANGED <<env, instances, global_random>>
    /\ attacker.kind = "random"
    /\ \E budget \in Budgets, num_runs \in 0..MaxRuns :
        DoAttackMultipleRuns(budget, num_runs)

\* UnifiedEvaluator(collapse_threshold).evaluate_dismant(graph, attack_sequence)
EvaluateDismant ==
    /\ op = "init"
    /\ UNCHANGED <<env, instances, global_random>>
    /\ \E collapse_threshold \in Thresholds,
          attack_sequence \in SeqsUpTo(NodeSet(graph) \cup {Absent}, MaxBudget) :
        /\ \E self \in {UnifiedEvaluator(collapse_threshold, MaxRuns, 0)} :
           \E r \in {evaluate_dismant(self, graph, attack_sequence, <<"LLM">>, <<"unknown">>)} :
               /\ graph' = r.graph
               /\ recon' = Other(recon, graph, r.graph)
               /\ ret' = IF r.raised = "no" THEN [raised |-> "no", result |-> r.result]
                         ELSE [raised |-> r.raised]
               /\ args' = [attack_sequence |-> attack_sequence, self |-> self]
    /\ DropAttacker
    /\ rng' = EmptyTable
    /\ op' = "evaluate_dismant"
    /\ before' = Snapshot
    /\ UNCHANGED added

\* the effect of self.evaluate_construct(graph, recon, added, attack_budget=...)
DoEvaluateConstruct(self, attack_budget) ==
    LET ra == RandomAttack((self.random_seed :> <<>>), self.random_seed)
        ra2 == [ra EXCEPT !.seed = SeedAfterRuns(ra, self.random_runs, 0)]
        needed == {self.random_seed} \cup RunSeeds(ra, self.random_runs, 0)
                                     \cup RunSeeds(ra2, self.random_runs, 0)
        draws == SeqMin(DefaultBudget(attack_budget, recon), number_of_nodes(recon))
    IN  /\ \E tbl \in Tables(rng, needed, draws) :
           \E r \in {evaluate_construct(self, tbl, graph, recon, added,
                                         <<"LLM">>, <<"unknown">>, attack_budget)} :
                  /\ rng' = tbl
                  /\ graph' = r.original_graph
                  /\ recon' = r.reconstructed_graph
                  /\ ret' = IF r.raised = "no" THEN [raised |-> "no", result |-> r.result]
                            ELSE [raised |-> r.raised]
        /\ DropAttacker
        /\ op' = "evaluate_construct"
        /\ args' = [attack_budget |-> attack_budget, self |-> self]
        /\ before' = Snapshot
        /\ UNCHANGED added

\* evaluator.evaluate_construct(graph, graph, [], attack_budget=...)
EvaluateConstruct ==
    /\ op = "init"
    /\ UNCHANGED <<env, instances, global_random>>
    /\ \E self \in Evaluators, attack_budget \in {None} \cup (1..MaxStress) :
        DoEvaluateConstruct(self, attack_budget)

\* the evaluator that built recon evaluates it: self.evaluate_construct(graph, recon, added)
EvaluateReconstructed ==
    /\ op \in {"random_construct", "degree_based_construct"}
    /\ UNCHANGED <<env, instances, global_random>>
    /\ ret.raised = "no"
    /\ DoEvaluateConstruct(args.self, None)

\* recon, added = evaluator._random_construct(graph, budget)
RandomConstruct ==
    /\ op = "init"
    /\ UNCHANGED <<env, instances, global_random>>
    /\ \E self \in Evaluators, budget \in Budgets, stream \in Streams :
        /\ rng' = (self.random_seed :> stream)
        /\ \E r \in {random_construct(self, rng', graph, budget)} :
               /\ graph' = r.graph
               /\ recon' = IF r.raised = "no" THEN [r.g EXCEPT !.obj = "R"] ELSE r.graph
               /\ added' = IF r.raised = "no" THEN r.added ELSE <<>>
               /\ ret' = IF r.raised = "no"
                         THEN [raised |-> "no", g |-> r.g, added |-> r.added,
                               attempts |-> r.attempts]
                         ELSE [raised |-> r.raised]
        /\ args' = [budget |-> budget, self |-> self]
    /\ DropAttacker
    /\ op' = "random_construct"
    /\ before' = Snapshot

\* recon, added = evaluator._degree_based_construct(graph, budget)
DegreeConstruct ==
    /\ op = "init"
    /\ UNCHANGED <<env, instances, global_random>>
    /\ \E self \in Evaluators, budget \in Budgets :
        /\ \E r \in {degree_based_construct(self, graph, budget)} :
               /\ graph' = r.graph
               /\ recon' = [r.g EXCEPT !.obj = "R"]
               /\ added' = r.added
               /\ ret' = [raised |-> "no", g |-> r.g, added |-> r.added]
        /\ args' = [budget |-> budget, self |-> self]
    /\ DropAttacker
    /\ rng' = EmptyTable
    /\ op' = "degree_based_construct"
    /\ before' = Snapshot

\* the caller discards the outcome and whatever it built, and keeps its graph
Discard ==
    /\ op # "init"
    /\ UNCHANGED <<env, instances, global_random>>
    /\ DropAttacker
    /\ DropRecon
    /\ rng' = EmptyTable
    /\ op' = "init"
    /\ args' = NoArgs
    /\ ret' = NoRet
    /\ before' = [graph |-> graph, recon |-> graph]
    /\ UNCHANGED graph

Next ==
    \/ NewHighestDegreeAttack
    \/ NewRandomAttack
    \/ NewScriptedAttack
    \/ Attack
    \/ AttackAgain
    \/ AttackMultipleRuns
    \/ EvaluateDismant
    \/ EvaluateConstruct
    \/ EvaluateReconstructed
    \/ RandomConstruct
    \/ DegreeConstruct
    \/ Discard

Spec == Init /\ [][Next]_vars

\* one simulation run at a time: strategies, attack and evaluate_dismant
NextRun ==
    \/ NewHighestDegreeAttack
    \/ NewRandomAttack
    \/ NewScriptedAttack
    \/ Attack
    \/ AttackAgain
    \/ EvaluateDismant
    \/ Discard

SpecRun == Init /\ [][NextRun]_vars

\* ------------------------------------------------------- longer batches
\* largest num_runs of a batch
MaxBatch == 3

\* attacker.attack_multiple_runs(graph, budget, num_runs) with up to MaxBatch runs
AttackBatch ==
    /\ op = "new"
    /\ UNCHANGED <<env, instances, global_random>>
    /\ attacker.kind = "random"
    /\ \E budget \in Budgets, num_runs \in 0..MaxBatch :
        DoAttackMultipleRuns(budget, num_runs)

\* batches of a random strategy
NextBatch ==
    \/ NewRandomAttack
    \/ AttackBatch
    \/ Discard

SpecBatch == Init /\ [][NextBatch]_vars

\* ------------------------------------------- evaluations with baselines
\* the sequences handed to evaluate_dismant_with_baselines: the first nodes of
\* the graph in insertion order, or a node it does not contain
BaselineSequences(G) == {SubSeq(G.nodes, 1, k) : k \in 0..Len(G.nodes)} \cup {<<Absent>>}

\* the seeds of the random baseline of self
BaselineSeeds(self, include_random) ==
    IF include_random
    THEN {self.random_seed}
         \cup RunSeeds(RandomAttack((self.random_seed :> <<>>), self.random_seed),
                       self.random_runs, 0)
    ELSE {}

\* the effect of self.evaluate_dismant_with_baselines(graph, attack_sequence,
\* budget=..., include_hda=..., include_random=...)
DoEvaluateDismantWithBaselines(self, attack_sequence, budget, include_hda, include_random) ==
    /\ \E tbl \in Tables(rng, BaselineSeeds(self, include_random),
                         SeqMin(DefaultBudget(budget, graph), number_of_nodes(graph))) :
       \E r \in {evaluate_dismant_with_baselines(self, tbl, graph, attack_sequence, <<"LLM">>,
                                                  <<"unknown">>, budget, include_hda,
                                                  include_random)} :
              /\ rng' = tbl
              /\ graph' = r.graph
              /\ recon' = Other(recon, graph, r.graph)
              /\ ret' = IF r.raised = "no"
                        THEN [raised |-> "no", result |-> r.result,
                              random_results |-> r.random_results]
                        ELSE [raised |-> r.raised]
    /\ args' = [attack_sequence |-> attack_sequence, budget |-> budget, self |-> self,
                include_hda |-> include_hda, include_random |-> include_random]
    /\ DropAttacker
    /\ op' = "evaluate_dismant_with_baselines"
    /\ before' = Snapshot
    /\ UNCHANGED added

\* evaluator.evaluate_dismant_with_baselines(graph, attack_sequence, budget=...)
EvaluateDismantWithBaselines ==
    /\ op = "init"
    /\ UNCHANGED <<env, instances, global_random>>
    /\ \E self \in Evaluators, attack_sequence \in BaselineSequences(graph),
          budget \in {None} \cup Budgets, include_hda \in BOOLEAN, include_random \in BOOLEAN :
        DoEvaluateDismantWithBaselines(self, attack_sequence, budget, include_hda,
                                       include_random)

\* evaluations with baselines
NextBaselines ==
    \/ EvaluateDismantWithBaselines
    \/ Discard

SpecBaselines == Init /\ [][NextBaselines]_vars

\* ====================================================== the curve metrics
\* largest number of points of a curve handed to the metrics
MaxPoints == 3
\* the LCC values of those curves are the multiples of 1/LccSteps in [0, 1]
LccSteps == 2

\* the left rectangle rule
RECURSIVE rectangle_dx(_, _)
rectangle_dx(curve, dx) ==
    IF Len(curve) < 2 THEN Zero
    ELSE RatAdd(RatMul(dx, curve[1]), rectangle_dx(Tail(curve), dx))

\* np.trapz(curve, dx=delta_q)
RECURSIVE trapz_dx(_, _)
trapz_dx(curve, dx) ==
    IF Len(curve) < 2 THEN Zero
    ELSE RatAdd(RatMul(dx, RatDiv(RatAdd(curve[2], curve[1]), <<2, 1>>)),
                trapz_dx(Tail(curve), dx))

\* min(r_res, 1.0)
RatMin(a, b) == IF RatLt(a, b) THEN a ELSE b

\* ResilienceMetrics.compute_r_res, for an instance with self.normalize
ResilienceMetrics_compute_r_res(normalize, lcc_curve) ==
    IF Len(lcc_curve) < 2 THEN Zero
    ELSE IF normalize
    THEN RatMin(trapz_dx(lcc_curve, Rat(1, Len(lcc_curve) - 1)), One)
    ELSE trapz_dx(lcc_curve, Rat(1, Len(lcc_curve) - 1))

\* the curve of the resilience integral example
IntegralCurve ==
    [lcc_values |-> <<One, <<4, 5>>, <<1, 2>>, <<3, 10>>, <<1, 10>>, Zero>>,
     removal_fractions |-> <<Zero, <<1, 5>>, <<2, 5>>, <<3, 5>>, <<4, 5>>, One>>]

\* the curve of the collapse point example
CollapseCurve ==
    [lcc_values |-> <<One, <<1, 2>>, <<1, 10>>>>,
     removal_fractions |-> <<Zero, <<1, 2>>, One>>]

\* the removal fractions 0, 1/d, 2/d, ... of a curve of n points
Fractions(n, d) == [i \in 1..n |-> Rat(i - 1, d)]

\* curves of at most MaxPoints points: fractions spread over [0, 1], or the
\* fractions of the first removals from the path graph
Curves ==
    {IntegralCurve, CollapseCurve} \cup
    UNION {{[lcc_values |-> y, removal_fractions |-> Fractions(n, d)] :
                y \in [1..n -> {Rat(k, LccSteps) : k \in 0..LccSteps}],
                d \in {IF n > 1 THEN n - 1 ELSE 1, Len(PathGraph.nodes)}} :
           n \in 0..MaxPoints}

\* a result record holding a curve
CurveResult(curve) ==
    [lcc_values |-> curve.lcc_values, removal_fractions |-> curve.removal_fractions]

InitMetrics ==
    /\ graph = PathGraph
    /\ recon = graph
    /\ added = <<>>
    /\ attacker = NoAttacker
    /\ calls = 0
    /\ rng = EmptyTable
    /\ op = "init"
    /\ args \in Curves
    /\ ret = NoRet
    /\ before = Snapshot
    /\ env = NoEnv
    /\ instances = <<>>
    /\ global_random = NoModuleRandom

\* the three resilience integrals of the curve args
ComputeRRes ==
    /\ op = "init"
    /\ UNCHANGED <<env, instances, global_random>>
    /\ op' = "compute_r_res"
    /\ ret' = [raised |-> "no",
               AttackResult |-> AttackResult_compute_r_res(CurveResult(args)),
               UnifiedEvaluator |->
                   UnifiedEvaluator_compute_r_res(args.removal_fractions, args.lcc_values),
               ResilienceMetrics |-> ResilienceMetrics_compute_r_res(TRUE, args.lcc_values),
               ResilienceMetrics_raw |->
                   ResilienceMetrics_compute_r_res(FALSE, args.lcc_values)]
    /\ UNCHANGED <<graph, recon, added, attacker, calls, rng, args, before>>

\* the collapse points of the curve args at a threshold
FindCollapsePoint ==
    /\ op = "init"
    /\ UNCHANGED <<env, instances, global_random>>
    /\ op' = "find_collapse_point"
    /\ \E threshold \in Thresholds :
        ret' = [raised |-> "no",
                threshold |-> threshold,
                AttackResult |-> AttackResult_find_collapse_point(CurveResult(args), threshold),
                UnifiedEvaluator |->
                    UnifiedEvaluator_find_collapse_point(
                        UnifiedEvaluator(threshold, MaxRuns, 0),
                        args.lcc_values, args.removal_fractions)]
    /\ UNCHANGED <<graph, recon, added, attacker, calls, rng, args, before>>

NextMetrics ==
    \/ ComputeRRes
    \/ FindCollapsePoint

SpecMetrics == InitMetrics /\ [][NextMetrics]_vars

\* ================================================= the averaging of curves
\* LCC curves of 1 to MaxPoints points that never grow
RunCurves ==
    UNION {{y \in [1..n -> {Rat(k, LccSteps) : k \in 0..LccSteps}] :
                \A i \in 1..(n - 1) : RatLe(y[i + 1], y[i])} :
           n \in 1..MaxPoints}

\* the curves of 1 to MaxRuns runs
RunCurveLists == UNION {[1..n -> RunCurves] : n \in 1..MaxRuns}

InitAverage ==
    /\ graph = PathGraph
    /\ recon = graph
    /\ added = <<>>
    /\ attacker = NoAttacker
    /\ calls = 0
    /\ rng = EmptyTable
    /\ op = "init"
    /\ args \in [all_lcc_curves : RunCurveLists]
    /\ ret = NoRet
    /\ before = Snapshot
    /\ env = NoEnv
    /\ instances = <<>>
    /\ global_random = NoModuleRandom

\* the averaged curve of attack_multiple_runs for the run curves args
AverageCurves ==
    /\ op = "init"
    /\ UNCHANGED <<env, instances, global_random>>
    /\ op' = "avg_lcc_curve"
    /\ ret' = [raised |-> "no", avg_lcc_curve |-> avg_lcc_curve(args.all_lcc_curves)]
    /\ UNCHANGED <<graph, recon, added, attacker, calls, rng, args, before>>

NextAverage == AverageCurves

SpecAverage == InitAverage /\ [][NextAverage]_vars

\* ------------------------------------------------- NetworkEnvironment
MaxSteps == 3

\* the node identifiers a caller passes: those of the graph and one outside
EnvNodes == NodeSet(graph) \cup {Absent}

\* the caller's graphs and environment when the operation was called
EnvSnapshot == [graph |-> graph, recon |-> recon, env |-> env]

\* env = NetworkEnvironment(graph)
InitEnv ==
    /\ graph \in SmallGraphs
    /\ recon = graph
    /\ added = <<>>
    /\ attacker = NoAttacker
    /\ calls = 0
    /\ rng = EmptyTable
    /\ op = "NetworkEnvironment"
    /\ args = NoArgs
    /\ ret = NoRet
    /\ env = NetworkEnvironment(graph)
    /\ instances = <<>>
    /\ global_random = NoModuleRandom
    /\ before = [graph |-> graph, recon |-> graph, env |-> NetworkEnvironment(graph)]

\* env.remove_node(node_id)
EnvRemoveNode ==
    /\ env.current_step < MaxSteps
    /\ \E node_id \in EnvNodes :
        /\ env' = NetworkEnvironment_remove_node(env, node_id)
        /\ args' = [node_id |-> node_id]
    /\ op' = "remove_node"
    /\ ret' = NoRet
    /\ before' = EnvSnapshot
    /\ UNCHANGED <<graph, recon, added, attacker, calls, rng, instances, global_random>>

\* env.add_edge(u, v)
EnvAddEdge ==
    /\ env.current_step < MaxSteps
    /\ \E u \in EnvNodes, v \in EnvNodes :
        /\ env' = NetworkEnvironment_add_edge(env, u, v)
        /\ args' = [u |-> u, v |-> v]
    /\ op' = "add_edge"
    /\ ret' = NoRet
    /\ before' = EnvSnapshot
    /\ UNCHANGED <<graph, recon, added, attacker, calls, rng, instances, global_random>>

\* env.reset()
EnvReset ==
    /\ env' = NetworkEnvironment_reset(env)
    /\ args' = NoArgs
    /\ op' = "reset"
    /\ ret' = NoRet
    /\ before' = EnvSnapshot
    /\ UNCHANGED <<graph, recon, added, attacker, calls, rng, instances, global_random>>

\* the LCC ratios of the environment's graph, the run having started from
\* initial_graph
EnvLccRatios ==
    /\ op # "compute_lcc_ratio"
    /\ op' = "compute_lcc_ratio"
    /\ args' = [initial_nodes |-> number_of_nodes(env.initial_graph)]
    /\ ret' = [raised |-> "no",
               BaseAttack |->
                   BaseAttack_compute_lcc_ratio(env.graph, number_of_nodes(env.initial_graph)),
               UnifiedEvaluator |->
                   UnifiedEvaluator_compute_lcc_ratio(env.graph,
                                                      number_of_nodes(env.initial_graph)),
               ResilienceMetrics |-> ResilienceMetrics_compute_lcc_ratio(env.graph)]
    /\ before' = EnvSnapshot
    /\ UNCHANGED <<graph, recon, added, attacker, calls, rng, env, instances, global_random>>

NextEnv ==
    \/ EnvRemoveNode
    \/ EnvAddEdge
    \/ EnvReset
    \/ EnvLccRatios

SpecEnv == InitEnv /\ [][NextEnv]_vars

\* ------------------------------------ RandomAttack instances side by side
MaxSelects == 2
MaxDraws == 2

\* the graphs handed to select_node
SelectGraphs == {[obj |-> "G", nodes |-> Ascending(k), edges |-> {}] : k \in {0, MaxNodes}}

\* an instance with the graphs it was asked about and the nodes it selected
Instance(self) == [self |-> self, graphs |-> <<>>, selected |-> <<>>]

\* a = RandomAttack(0); b = RandomAttack(seed)
InitInstances ==
    /\ graph = PathGraph
    /\ recon = graph
    /\ added = <<>>
    /\ attacker = NoAttacker
    /\ calls = 0
    /\ rng \in [0..MaxSeed -> Streams]
    /\ op = "init"
    /\ args = NoArgs
    /\ ret = NoRet
    /\ before = Snapshot
    /\ env = NoEnv
    /\ \E seed \in 0..MaxSeed :
        instances = <<Instance(RandomAttack(rng, 0)), Instance(RandomAttack(rng, seed))>>
    /\ \E stream \in Streams : global_random = ModuleRandom(stream)

\* instances[i].self.select_node(G)
InstanceSelectNode(i) ==
    /\ Len(instances[i].selected) < MaxSelects
    /\ \E G \in SelectGraphs :
        \E r \in {SelectFromInstance(instances[i].self, G, global_random)} :
            /\ instances' = [instances EXCEPT ![i] = [self |-> r.self,
                                                      graphs |-> Append(@.graphs, G),
                                                      selected |-> Append(@.selected, r.node)]]
            /\ global_random' = r.global
    /\ op' = "select_node"
    /\ UNCHANGED <<graph, recon, added, attacker, calls, rng, args, ret, before, env>>

\* random.seed(self.random_seed) of _random_construct
ModuleSeed ==
    /\ \E seed \in 0..MaxSeed : global_random' = random_module_seed(global_random, rng, seed)
    /\ op' = "random.seed"
    /\ UNCHANGED <<graph, recon, added, attacker, calls, rng, args, ret, before, env, instances>>

\* random.sample(nodes, 2) of _random_construct
ModuleSample ==
    /\ global_random.pos < MaxDraws
    /\ global_random' = random_sample(global_random)
    /\ op' = "random.sample"
    /\ UNCHANGED <<graph, recon, added, attacker, calls, rng, args, ret, before, env, instances>>

NextInstances ==
    \/ \E i \in 1..2 : InstanceSelectNode(i)
    \/ ModuleSeed
    \/ ModuleSample

SpecInstances == InitInstances /\ [][NextInstances]_vars

\* --------------------------------------- one instance, graph after graph
\* the path graph with its nodes inserted from 4 down to 0
ReversedPathGraph ==
    [obj |-> "R", nodes |-> <<4, 3, 2, 1, 0>>, edges |-> {{0, 1}, {1, 2}, {2, 3}, {3, 4}}]

\* the graphs the instance may have attacked before
OtherGraphs == {[G EXCEPT !.obj = "R"] : G \in SmallGraphs} \cup {ReversedPathGraph}

\* hda = HighestDegreeAttack(recalculate), the caller holding graph and recon
InitSuccessive ==
    /\ graph \in InputGraphs
    /\ recon \in OtherGraphs
    /\ added = <<>>
    /\ \E recalculate \in BOOLEAN : attacker = HighestDegreeAttack(recalculate)
    /\ calls = 0
    /\ rng = EmptyTable
    /\ op = "new"
    /\ args = NoArgs
    /\ ret = NoRet
    /\ before = Snapshot
    /\ env = NoEnv
    /\ instances = <<>>
    /\ global_random = NoModuleRandom

\* attacker.attack(recon, budget)
AttackOtherGraph ==
    /\ op = "new"
    /\ \E budget \in Budgets :
        \E r \in {attack(attacker, recon, budget, <<"unknown">>, DefaultThreshold)} :
           /\ attacker' = r.self
           /\ recon' = r.graph
           /\ ret' = IF r.raised = "no" THEN [raised |-> "no", result |-> r.result]
                     ELSE [raised |-> r.raised]
           /\ args' = [budget |-> budget, collapse_threshold |-> DefaultThreshold]
    /\ calls' = calls + 1
    /\ op' = "attack_other"
    /\ before' = Snapshot
    /\ UNCHANGED <<graph, added, rng, env, instances, global_random>>

\* attacker.attack(graph, budget) after the attack on recon
AttackAfterOther ==
    /\ op = "attack_other"
    /\ UNCHANGED <<env, instances, global_random>>
    /\ \E budget \in Budgets : DoAttack(budget, DefaultThreshold)

NextSuccessive ==
    \/ AttackOtherGraph
    \/ Attack
    \/ AttackAfterOther

SpecSuccessive == InitSuccessive /\ [][NextSuccessive]_vars

\* ------------------------------- degree-guided construct, large graphs
\* the edges of the complete graph on the nodes lo..hi
CliqueEdges(lo, hi) == {{u, v} : u \in lo..hi, v \in lo..hi} \ {{u} : u \in lo..hi}

\* two disjoint complete graphs of LowDegreePool nodes each
TwoCliques ==
    [obj |-> "G",
     nodes |-> [i \in 1..(2 * LowDegreePool) |-> i - 1],
     edges |-> CliqueEdges(0, LowDegreePool - 1)
               \cup CliqueEdges(LowDegreePool, 2 * LowDegreePool - 1)]

\* the graphs with more nodes than the pool: the two complete graphs, and the
\* same with one or two edges of the first one missing
PoolGraphs ==
    {TwoCliques,
     [TwoCliques EXCEPT !.edges = @ \ {{3, 7}}],
     [TwoCliques EXCEPT !.edges = @ \ {{3, 7}, {5, 6}}]}

InitPool ==
    /\ graph \in InputGraphs \cup PoolGraphs
    /\ recon = graph
    /\ added = <<>>
    /\ attacker = NoAttacker
    /\ calls = 0
    /\ rng = EmptyTable
    /\ op = "init"
    /\ args = NoArgs
    /\ ret = NoRet
    /\ before = [graph |-> graph, recon |-> graph]
    /\ env = NoEnv
    /\ instances = <<>>
    /\ global_random = NoModuleRandom

NextPool ==
    \/ DegreeConstruct
    \/ Discard

SpecPool == InitPool /\ [][NextPool]_vars

\* =============================================================== claims
\* a call of an engine operation has returned a result
Returned(name) == op = name /\ ret.raised = "no"

SameNodesAndEdges(G, H) == NodeSet(G) = NodeSet(H) /\ G.edges = H.edges

NonDecreasing(xs) == \A i \in 1..(Len(xs) - 1) : RatLe(xs[i], xs[i + 1])
NonIncreasing(xs) == \A i \in 1..(Len(xs) - 1) : RatLe(xs[i + 1], xs[i])

\* the set S of nodes of G is connected within S
ConnectedSet(G, S) ==
    /\ S # {}
    /\ \A T \in SUBSET S :
          (T # {} /\ T # S) => \E e \in G.edges : e \subseteq S /\ e \cap T # {} /\ e \ T # {}

\* the size of the largest connected set of nodes of a non-empty graph
LargestConnected(G) ==
    CHOOSE k \in 1..number_of_nodes(G) :
        /\ \E S \in SUBSET NodeSet(G) : Cardinality(S) = k /\ ConnectedSet(G, S)
        /\ \A S \in SUBSET NodeSet(G) : ConnectedSet(G, S) => Cardinality(S) <= k

\* the curve of the run an attack or evaluate_dismant call returned
RunFractions == ret.result.removal_fractions
RunLcc == IF op = "attack" THEN ret.result.lcc_values ELSE ret.result.lcc_curve
RunReturned == Returned("attack") \/ Returned("evaluate_dismant")

\* C1: after any engine operation (attack, attack_multiple_runs,
\* evaluate_dismant, evaluate_construct, _random_construct,
\* _degree_based_construct), whether it returned or raised, every graph the
\* caller passed in has the node set and the edge set it had before the call.
C1_CallerGraphsUnchanged ==
    op \in {"attack", "attack_multiple_runs", "evaluate_dismant", "evaluate_construct",
            "random_construct", "degree_based_construct"}
    => /\ SameNodesAndEdges(graph, before.graph)
       /\ op = "evaluate_construct" => SameNodesAndEdges(recon, before.recon)

\* C1 happens: a reconstruction with added edges has been stress-tested, the
\* attacks removing nodes from their working copies
C1_Witness ==
    /\ Returned("evaluate_construct")
    /\ added # <<>>
    /\ recon.edges # graph.edges
    /\ Len(ret.result.hda_lcc_curve) > 1
    /\ Len(ret.result.random_lcc_curve) > 1

\* C2: the removal_fractions of the Result of attack and of evaluate_dismant
\* (absent and repeated nodes in the sequence included) start with 0.0 and
\* never decrease.
C2_FractionsStartAtZeroAndGrow ==
    RunReturned => RunFractions[1] = Zero /\ NonDecreasing(RunFractions)

\* C2 happens: evaluate_dismant returned for a sequence naming an absent node
\* and a node twice
C2_Witness ==
    /\ Returned("evaluate_dismant")
    /\ Absent \in Range(args.attack_sequence)
    /\ \E i, j \in 1..Len(args.attack_sequence) :
          i < j /\ args.attack_sequence[i] = args.attack_sequence[j]
                /\ args.attack_sequence[i] \in NodeSet(graph)
    /\ Len(RunFractions) = Len(args.attack_sequence) + 1

\* C3: removal_fractions and lcc_values have the same length in the Result of
\* attack, in the DismantResult of evaluate_dismant and in the average_result
\* of attack_multiple_runs.
C3_CurvesHaveEqualLength ==
    /\ RunReturned => Len(RunFractions) = Len(RunLcc)
    /\ Returned("attack_multiple_runs")
       => Len(ret.average_result.removal_fractions) = Len(ret.average_result.lcc_values)

\* C3 happens: the average of several runs that each removed nodes
C3_Witness ==
    /\ Returned("attack_multiple_runs")
    /\ args.num_runs > 1
    /\ Len(ret.average_result.lcc_values) > 2

\* C4: in every node-removal run (attack with any strategy, evaluate_dismant
\* with any sequence) each recorded LCC ratio is at most the one before it.
C4_LccNeverGrows == RunReturned => NonIncreasing(RunLcc)

\* C4 happens: an attack by some other strategy whose curve falls twice
C4_Witness ==
    /\ Returned("attack")
    /\ attacker.kind = "script"
    /\ Len(RunLcc) > 2
    /\ RatLt(RunLcc[2], RunLcc[1])
    /\ RatLt(RunLcc[3], RunLcc[2])

\* C5 as stated: for every input graph, connected or not, empty or not, the
\* first LCC value of the Result of attack and evaluate_dismant is exactly 1.0.
C5_FirstLccIsOne == RunReturned => RunLcc[1] = One

\* C5 amended: the first LCC value is the size of the largest component over
\* the number of nodes for a non-empty graph, which is 1.0 exactly when the
\* graph is connected, and 0.0 for the empty graph.
C5_FirstLccIsLargestComponentShare ==
    RunReturned
    => /\ number_of_nodes(before.graph) = 0 => RunLcc[1] = Zero
       /\ number_of_nodes(before.graph) > 0
          => RunLcc[1] = Rat(LargestConnected(before.graph), number_of_nodes(before.graph))
       /\ RunLcc[1] = One <=> ConnectedSet(before.graph, NodeSet(before.graph))

\* C5 happens: a run on a graph that is not connected
C5_Witness ==
    /\ RunReturned
    /\ number_of_nodes(before.graph) > 1
    /\ ~ConnectedSet(before.graph, NodeSet(before.graph))
    /\ RatLt(RunLcc[1], One)

\* C6: attack with budget 0 returns, on any graph, a Result with an empty
\* attack_sequence, one point in removal_fractions and in lcc_values, and
\* r_res exactly 0.0; it does not raise.
C6_ZeroBudgetGivesSinglePoint ==
    (op = "attack" /\ args.budget = 0)
    => /\ ret.raised = "no"
       /\ ret.result.attack_sequence = <<>>
       /\ Len(ret.result.removal_fractions) = 1
       /\ Len(ret.result.lcc_values) = 1
       /\ ret.result.r_res = Zero

\* C6 happens: a zero-budget attack on a graph that has nodes to remove
C6_Witness ==
    /\ op = "attack"
    /\ args.budget = 0
    /\ number_of_edges(graph) > 0
    /\ attacker.kind = "hda"

\* the adaptive highest-degree attack on the path graph with budget 2 was called
PathScenario ==
    /\ op = "attack"
    /\ attacker.kind = "hda"
    /\ attacker.recalculate
    /\ before.graph = PathGraph
    /\ args.budget = 2

\* C7: adaptive HighestDegreeAttack.attack on the path graph 0-1-2-3-4 with
\* budget 2 returns attack_sequence [1, 3], removal_fractions [0.0, 0.2, 0.4],
\* lcc_values [1.0, 0.6, 0.2] and r_res 0.24.
C7_PathScenarioResult ==
    PathScenario
    => /\ ret.raised = "no"
       /\ ret.result.attack_sequence = <<1, 3>>
       /\ ret.result.removal_fractions = <<Zero, <<1, 5>>, <<2, 5>>>>
       /\ ret.result.lcc_values = <<One, <<3, 5>>, <<1, 5>>>>
       /\ ret.result.r_res = <<6, 25>>

\* C7 happens: the scenario was run and removed two nodes
C7_Witness == PathScenario /\ Len(ret.result.attack_sequence) = 2

\* the three resilience integrals of the example curve were computed
IntegralScenario == op = "compute_r_res" /\ args = IntegralCurve

\* C8 as stated: the integral of LCC values [1.0, 0.8, 0.5, 0.3, 0.1, 0.0]
\* over removal fractions [0, 0.2, ..., 1.0] is 0.37 by all three functions.
C8_IntegralIs037 ==
    IntegralScenario
    => /\ ret.AttackResult = <<37, 100>>
       /\ ret.UnifiedEvaluator = <<37, 100>>
       /\ ret.ResilienceMetrics = <<37, 100>>

\* C8 amended: that integral is 0.44 by all three functions.
C8_IntegralIs044 ==
    IntegralScenario
    => /\ ret.AttackResult = <<11, 25>>
       /\ ret.UnifiedEvaluator = <<11, 25>>
       /\ ret.ResilienceMetrics = <<11, 25>>

\* C8 happens: the integrals of the example curve are there and positive
C8_Witness == IntegralScenario /\ RatLt(Zero, ret.ResilienceMetrics)

\* the indices of the LCC values of curve args below the threshold
BelowThreshold == {i \in 1..Len(args.lcc_values) : RatLt(args.lcc_values[i], ret.threshold)}

\* x = f1 + t * (f2 - f1) with t = (v1 - threshold) / (v1 - v2)
Interpolates(x, f1, f2, v1, v2, threshold) ==
    RatMul(RatSub(x, f1), RatSub(v1, v2)) = RatMul(RatSub(v1, threshold), RatSub(f2, f1))

\* C9: AttackResult.find_collapse_point returns None when no LCC value is
\* below the threshold; otherwise, for the first index i whose value is below
\* it, the interpolated crossing between points i-1 and i when i > 0 and the
\* two values differ, and fractions[i] when not. Values [1.0, 0.5, 0.1] over
\* fractions [0, 0.5, 1.0] with threshold 0.2 give 0.875.
C9_CollapsePoint ==
    op = "find_collapse_point"
    => /\ BelowThreshold = {} => ret.AttackResult = NoneR
       /\ BelowThreshold # {}
          => LET i == CHOOSE i \in BelowThreshold : \A j \in BelowThreshold : i <= j
                 v == args.lcc_values
                 f == args.removal_fractions
             IN  IF i > 1 /\ v[i - 1] # v[i]
                 THEN /\ ret.AttackResult # NoneR
                      /\ Interpolates(ret.AttackResult, f[i - 1], f[i], v[i - 1], v[i],
                                      ret.threshold)
                 ELSE ret.AttackResult = f[i]
       /\ (args = CollapseCurve /\ ret.threshold = <<1, 5>>) => ret.AttackResult = <<7, 8>>

\* C9 happens: the collapse point of the example curve at threshold 0.2
C9_Witness ==
    /\ op = "find_collapse_point"
    /\ args = CollapseCurve
    /\ ret.threshold = <<1, 5>>
    /\ BelowThreshold = {3}

\* C10: evaluate_construct(G, G, []) returns r_ran == r_original_ran.
C10_SameRandomResilience ==
    (Returned("evaluate_construct") /\ before.recon = before.graph /\ added = <<>>)
    => ret.result.r_ran = ret.result.r_original_ran

\* ================================================= the multi-run batches
\* C11: in attack_multiple_runs called on an instance whose seed is s, the
\* generator of run i is seeded with exactly s + i, for every i in 0..N-1.
C11_RunSeedsAreBasePlusIndex ==
    op = "attack_multiple_runs"
    => /\ Len(ret.seeds) = args.num_runs
       /\ \A i \in 1..Len(ret.seeds) : ret.seeds[i] = args.seed + (i - 1)

\* C12: with a fixed seed RandomAttack.attack always yields the same
\* attack_sequence: every attack call on an instance constructed with a seed,
\* the first and the following ones, returns the sequence that a fresh
\* instance constructed with that seed returns for the same graph and budget.
C12_SameSeedSameSequence ==
    (op = "attack" /\ attacker.kind = "random")
    => /\ ret.raised = "no"
       /\ ret.result.attack_sequence =
              attack(RandomAttack(rng, attacker.seed), graph, args.budget, <<"unknown">>,
                     args.collapse_threshold).result.attack_sequence

\* C13: the per-run results returned by attack_multiple_runs are raw: for
\* every run index i, 0 included, all_results[i] still carries run i's own
\* algorithm_name and graph_name, its r_res and collapse_fraction are those of
\* its own curve, and the averaged values do not overwrite it.
C13_AllResultsAreRaw ==
    Returned("attack_multiple_runs")
    => \A i \in 1..Len(ret.all_results) :
          /\ ret.all_results[i].algorithm_name = <<"RandomAttack">>
          /\ ret.all_results[i].graph_name = <<"unknown", "_run", i - 1>>
          /\ ret.all_results[i].r_res = AttackResult_compute_r_res(ret.all_results[i])
          /\ ret.all_results[i].collapse_fraction =
                 AttackResult_find_collapse_point(ret.all_results[i], args.collapse_threshold)

\* C14: attack_multiple_runs never propagates an exception: a run that raises
\* is skipped and the remaining runs still execute, and a batch without any
\* successful run, num_runs == 0 included, returns rather than raising.
C14_BatchAlwaysReturns ==
    op = "attack_multiple_runs"
    => /\ ret.raised = "no"
       /\ Len(ret.seeds) = args.num_runs

\* ====================================================== expected conditions
\* the steps of a sequence whose node is not in the working graph when applied
AbsentSteps(seq) ==
    {k \in 1..Len(seq) : seq[k] \notin NodeSet(graph) \/ \E j \in 1..(k - 1) : seq[j] = seq[k]}

\* C15: a step whose target node is absent from the working graph is a no-op
\* and the run continues: attack does not raise when the strategy returns such
\* a node, and evaluate_dismant does not raise on a sequence naming a missing
\* or already removed node, leaves the working graph as it is at that step and
\* still executes the following steps.
C15_AbsentTargetIsNoOp ==
    /\ op = "attack" => ret.raised = "no"
    /\ op = "evaluate_dismant"
       => /\ ret.raised = "no"
          /\ Len(ret.result.lcc_curve) = Len(args.attack_sequence) + 1
          /\ \A k \in AbsentSteps(args.attack_sequence) :
                /\ ret.result.lcc_curve[k + 1] = ret.result.lcc_curve[k]
                /\ ret.result.removal_fractions[k + 1] = ret.result.removal_fractions[k]

\* the strategy of the last attack call removes every node of the graph when
\* the budget allows it: the built-in strategies always pick a node of the
\* working graph, a scripted one does when its first answers are the nodes
AttackEmptiesGraph ==
    /\ args.budget > number_of_nodes(graph)
    /\ \/ attacker.kind \in {"hda", "random"}
       \/ /\ attacker.kind = "script"
          /\ Len(attacker.script) >= number_of_nodes(graph)
          /\ Range(SubSeq(attacker.script, 1, number_of_nodes(graph))) = NodeSet(graph)

\* C16: an empty graph is never an error: when the input graph has no node, or
\* when the working graph becomes empty before the budget or the sequence is
\* used up, attack and evaluate_dismant (with any sequence, empty or not) stop
\* and return a Result without raising.
C16_EmptyGraphIsNoError ==
    /\ (op = "attack" /\ calls = 1 /\ (number_of_nodes(graph) = 0 \/ AttackEmptiesGraph))
       => /\ ret.raised = "no"
          /\ Len(ret.result.attack_sequence) = number_of_nodes(graph)
          /\ Len(ret.result.lcc_values) = number_of_nodes(graph) + 1
    /\ (op = "evaluate_dismant"
        /\ \/ number_of_nodes(graph) = 0
           \/ \E k \in 0..(Len(args.attack_sequence) - 1) :
                 Range(SubSeq(args.attack_sequence, 1, k)) = NodeSet(graph))
       => /\ ret.raised = "no"
          /\ Len(ret.result.lcc_curve) = Len(args.attack_sequence) + 1

\* the number of nodes a scripted strategy names before it answers None
NodesBeforeNone(script) ==
    IF \E i \in 1..Len(script) : script[i] = None
    THEN (CHOOSE i \in 1..Len(script) :
              script[i] = None /\ \A j \in 1..(i - 1) : script[j] # None) - 1
    ELSE Len(script)

\* the graph without the nodes of seq
RECURSIVE Without(_, _)
Without(G, seq) == IF seq = <<>> THEN G ELSE Without(remove_node(G, Head(seq)), Tail(seq))

\* the last attack call was the first one on a strategy that names k distinct
\* nodes of the graph and then answers None, with nodes and budget left
ExhaustedAt(k) ==
    /\ op = "attack"
    /\ calls = 1
    /\ attacker.kind = "script"
    /\ k = NodesBeforeNone(attacker.script)
    /\ k < args.budget
    /\ k < number_of_nodes(graph)
    /\ Range(SubSeq(attacker.script, 1, k)) \subseteq NodeSet(graph)
    /\ Cardinality(Range(SubSeq(attacker.script, 1, k))) = k

\* C17: when select_node returns None at step k < budget, attack stops at
\* once: select_node has been called k + 1 times and not again, the k nodes
\* named before are the only ones removed, the Result has an attack_sequence of
\* length k and curves of length k + 1, and its r_res and collapse_fraction are
\* computed from that shorter curve.
C17_StopsWhenStrategyExhausted ==
    \A k \in 0..MaxBudget :
        ExhaustedAt(k)
        => /\ ret.raised = "no"
           /\ attacker.pos = k + 1
           /\ ret.result.attack_sequence = SubSeq(attacker.script, 1, k)
           /\ Len(ret.result.removal_fractions) = k + 1
           /\ Len(ret.result.lcc_values) = k + 1
           /\ ret.result.lcc_values[k + 1] =
                  BaseAttack_compute_lcc_ratio(Without(graph, SubSeq(attacker.script, 1, k)),
                                               number_of_nodes(graph))
           /\ ret.result.r_res =
                  trapezoid(ret.result.lcc_values, ret.result.removal_fractions)
           /\ ret.result.collapse_fraction =
                  AttackResult_find_collapse_point(ret.result, args.collapse_threshold)

\* C17 happens: the strategy names one node and then None with budget 3 on a
\* graph of three nodes
C17_Witness ==
    /\ ExhaustedAt(1)
    /\ args.budget = 3
    /\ number_of_nodes(graph) = 3
    /\ Len(attacker.script) = 2
    /\ Len(ret.result.attack_sequence) = 1

\* ========================================= the evaluator against the runner
\* the simulation run that removes the nodes of seq in order: attack with
\* budget len(seq) and a strategy that returns them one by one
SimulationRun(seq, collapse_threshold) ==
    attack(ScriptedAttack(seq), graph, Len(seq), <<"unknown">>, collapse_threshold)

\* C18: for every graph and every sequence of distinct nodes of that graph,
\* evaluate_dismant returns the same removal_fractions, LCC curve, r_res and
\* collapse_fraction as attack run with budget len(seq), the same collapse
\* threshold and a strategy returning the nodes of seq in order, graphs whose
\* initial LCC ratio is below the threshold included.
C18_EvaluateDismantIsSimulationRun ==
    (/\ op = "evaluate_dismant"
     /\ Range(args.attack_sequence) \subseteq NodeSet(graph)
     /\ Cardinality(Range(args.attack_sequence)) = Len(args.attack_sequence))
    => /\ ret.raised = "no"
       /\ \E r \in {SimulationRun(args.attack_sequence, args.self.collapse_threshold)} :
             /\ r.raised = "no"
             /\ ret.result.removal_fractions = r.result.removal_fractions
             /\ ret.result.lcc_curve = r.result.lcc_values
             /\ ret.result.r_res = r.result.r_res
             /\ ret.result.collapse_fraction = r.result.collapse_fraction

\* ================================================ the baselines' budget
\* C19: evaluate_dismant_with_baselines runs everything under the budget b the
\* caller passed, for every explicit b >= 0, b == 0 included: the caller's
\* sequence, the Highest-Degree baseline and every Random run each remove at
\* most b nodes, and each returned curve has at most b + 1 points.
C19_BaselinesKeepCallersBudget ==
    (Returned("evaluate_dismant_with_baselines") /\ args.budget # None)
    => /\ args.attack_sequence # <<>>
          => /\ Len(ret.result.dismant_result.attack_sequence) <= args.budget
             /\ Len(ret.result.dismant_result.lcc_curve) <= args.budget + 1
       /\ \A k \in DOMAIN ret.result.baseline_results :
             /\ Len(ret.result.baseline_results[k].lcc_curve) <= args.budget + 1
             /\ Len(ret.result.baseline_results[k].removal_fractions) <= args.budget + 1
       /\ \A i \in 1..Len(ret.random_results) :
             Len(ret.random_results[i].attack_sequence) <= args.budget

\* ================================================= the averaging of curves
\* the value a run curve contributes at point k: its own value there, its
\* final value beyond its end
ValueAt(curve, k) == IF k <= Len(curve) THEN curve[k] ELSE curve[Len(curve)]

\* C20: multi-run averaging pads before it averages: the averaged curve has
\* the length of the longest run curve, and its element k is the mean over all
\* runs of the run's value at k when k is within the run's curve and of the
\* run's own final value otherwise.
C20_PadsThenAverages ==
    op = "avg_lcc_curve"
    => /\ \E i \in 1..Len(args.all_lcc_curves) :
              Len(ret.avg_lcc_curve) = Len(args.all_lcc_curves[i])
       /\ \A i \in 1..Len(args.all_lcc_curves) :
              Len(args.all_lcc_curves[i]) <= Len(ret.avg_lcc_curve)
       /\ \A k \in 1..Len(ret.avg_lcc_curve) :
              RatMul(ret.avg_lcc_curve[k], <<Len(args.all_lcc_curves), 1>>) =
                  SeqSum([i \in 1..Len(args.all_lcc_curves) |->
                              ValueAt(args.all_lcc_curves[i], k)])

\* C20 happens: a run of one point at 1/2 averaged with a run of three points
\* gives three points, the short run counting 1/2 at each of them
C20_Witness ==
    /\ op = "avg_lcc_curve"
    /\ args.all_lcc_curves = <<<<One, <<1, 2>>, Zero>>, <<<<1, 2>>>>>>
    /\ ret.avg_lcc_curve = <<<<3, 4>>, <<1, 2>>, <<1, 4>>>>

\* ============================================== construct evaluation again
\* C21: evaluate_construct(G, G, []) returns r_tar == r_original_tar and
\* r_improvement == 0 for every graph and attack budget, the
\* HighestDegreeAttack instance being the same for both stress tests.
C21_SameTargetedResilience ==
    (Returned("evaluate_construct") /\ before.recon = before.graph /\ added = <<>>)
    => /\ ret.result.r_tar = ret.result.r_original_tar
       /\ ret.result.r_improvement = Zero

\* C21 happens: a graph evaluated against itself whose targeted curve has
\* removals and a positive integral
C21_Witness ==
    /\ Returned("evaluate_construct")
    /\ before.recon = before.graph
    /\ added = <<>>
    /\ Len(ret.result.hda_lcc_curve) > 2
    /\ RatLt(Zero, ret.result.r_original_tar)

\* the guard of add_edge extended by a test that the edge is not there yet
AddsNewEdge(self, u, v) ==
    /\ u \in NodeSet(self.graph)
    /\ v \in NodeSet(self.graph)
    /\ u # v
    /\ ~has_edge(self.graph, u, v)

\* the environment is what it was before the call
EnvUntouched ==
    /\ env.graph = before.env.graph
    /\ env.current_step = before.env.current_step
    /\ env.history = before.env.history

\* C22: NetworkEnvironment.add_edge(u, v) is a complete no-op (graph,
\* current_step and history all unchanged) whenever u or v is not in the
\* graph, u == v, or the edge (u, v) already exists; remove_node(n) is a
\* complete no-op when n is not in the graph.
C22_RejectedCallsAreNoOps ==
    /\ (op = "add_edge" /\ ~AddsNewEdge(before.env, args.u, args.v)) => EnvUntouched
    /\ (op = "remove_node" /\ args.node_id \notin NodeSet(before.env.graph)) => EnvUntouched

\* the no-op cases of C22 other than the edge that already exists
C22_GuardedCallsAreNoOps ==
    /\ (op = "add_edge" /\ ~AddsEdge(before.env, args.u, args.v)) => EnvUntouched
    /\ (op = "remove_node" /\ args.node_id \notin NodeSet(before.env.graph)) => EnvUntouched

\* C30: NetworkEnvironment keeps step counter and history in lockstep: after
\* construction and any sequence of remove_node, add_edge and reset calls,
\* len(history) == current_step + 1, history[k].step == k for every k, and the
\* last snapshot's num_nodes and num_edges are those of the current graph;
\* reset returns the graph to the one given at construction with
\* current_step == 0.
C30_HistoryInLockstep ==
    /\ Len(env.history) = env.current_step + 1
    /\ \A k \in 0..env.current_step : env.history[k + 1].step = k
    /\ env.history[Len(env.history)].num_nodes = number_of_nodes(env.graph)
    /\ env.history[Len(env.history)].num_edges = number_of_edges(env.graph)
    /\ op = "reset" => /\ env.current_step = 0
                       /\ env.graph.nodes = graph.nodes
                       /\ env.graph.edges = graph.edges

\* a reset after a node was removed and an edge added
C30_Witness ==
    /\ op = "reset"
    /\ before.env.current_step >= 2
    /\ number_of_nodes(before.env.graph) < number_of_nodes(graph)
    /\ before.env.graph.edges \ graph.edges # {}
    /\ env.graph.edges = graph.edges

\* the largest component of G over a run that started with initial_nodes nodes
InitialCountRatio(G, initial_nodes) ==
    IF number_of_nodes(G) = 0 THEN Zero ELSE Rat(LargestConnected(G), initial_nodes)

\* C23: every LCC ratio is the size of the largest connected component divided
\* by the initial node count of the run, never by the current node count, and
\* 0 for an empty graph, for BaseAttack._compute_lcc_ratio,
\* UnifiedEvaluator._compute_lcc_ratio and ResilienceMetrics.compute_lcc_ratio
\* after any number of node removals.
C23_RatiosUseInitialCount ==
    op = "compute_lcc_ratio"
    => /\ ret.BaseAttack = InitialCountRatio(env.graph, args.initial_nodes)
       /\ ret.UnifiedEvaluator = InitialCountRatio(env.graph, args.initial_nodes)
       /\ ret.ResilienceMetrics = InitialCountRatio(env.graph, args.initial_nodes)

\* the part of C23 about the attack engine and the evaluator
C23_AttackAndEvaluatorUseInitialCount ==
    op = "compute_lcc_ratio"
    => /\ ret.BaseAttack = InitialCountRatio(env.graph, args.initial_nodes)
       /\ ret.UnifiedEvaluator = InitialCountRatio(env.graph, args.initial_nodes)

\* the nodes a fresh instance selects when asked about graphs in turn
RECURSIVE AloneLoop(_, _, _, _)
AloneLoop(self, graphs, k, selected) ==
    IF k > Len(graphs) THEN selected
    ELSE AloneLoop(select_node(self, graphs[k]).self, graphs, k + 1,
                   Append(selected, select_node(self, graphs[k]).node))

Alone(seed, graphs) == AloneLoop(RandomAttack(rng, seed), graphs, 1, <<>>)

\* C24: random strategy state is instance-held: under any interleaving of
\* select_node calls on two RandomAttack instances and of calls that reseed or
\* draw from the generator of the random module, the sequence of nodes each
\* instance selects is the one it selects alone with the same seed and graphs.
C24_InstancesSelectAsAlone ==
    \A i \in DOMAIN instances :
        instances[i].selected = Alone(instances[i].self.seed, instances[i].graphs)

\* both instances selected between a reseed and draws of the module generator
C24_Witness ==
    /\ op = "select_node"
    /\ \A i \in DOMAIN instances : Len(instances[i].selected) = MaxSelects
    /\ instances[1].self.seed = instances[2].self.seed
    /\ instances[1].graphs[2] = instances[2].graphs[2]
    /\ instances[1].selected[2] # None
    /\ global_random.seeded
    /\ global_random.pos > 0
    /\ Draw(global_random.stream, 0) # Draw(instances[1].self.rng, 1)

\* the last attack call was a run of an adaptive HighestDegreeAttack
AdaptiveRun ==
    /\ Returned("attack")
    /\ attacker.kind = "hda"
    /\ attacker.recalculate

\* the working graph before step k of the run that returned
WorkingGraphAt(k) == Without(before.graph, SubSeq(ret.result.attack_sequence, 1, k - 1))

\* n has the maximum degree in G
HasMaxDegree(G, n) == \A m \in NodeSet(G) : degree(G, m) <= degree(G, n)

\* C25: at every step of an adaptive HighestDegreeAttack run the removed node
\* has the maximum degree in the current working graph, and when several nodes
\* share that maximum the one with the smallest node identifier is removed,
\* for every graph, whatever order its nodes were inserted in.
C25_RemovesSmallestMaxDegreeNode ==
    AdaptiveRun
    => \A k \in 1..Len(ret.result.attack_sequence) :
           /\ HasMaxDegree(WorkingGraphAt(k), ret.result.attack_sequence[k])
           /\ \A m \in NodeSet(WorkingGraphAt(k)) :
                  HasMaxDegree(WorkingGraphAt(k), m) => ret.result.attack_sequence[k] <= m

\* the part of C25 about the degree of the removed node
C25_RemovesMaxDegreeNode ==
    AdaptiveRun
    => \A k \in 1..Len(ret.result.attack_sequence) :
           HasMaxDegree(WorkingGraphAt(k), ret.result.attack_sequence[k])

\* the last attack call was a run of a static HighestDegreeAttack
StaticRun ==
    /\ Returned("attack")
    /\ attacker.kind = "hda"
    /\ ~attacker.recalculate

\* ranking lists every node of G once, by degree in G descending
RanksByDegree(ranking, G) ==
    /\ Len(ranking) = number_of_nodes(G)
    /\ Range(ranking) = NodeSet(G)
    /\ \A i \in 1..(Len(ranking) - 1) : degree(G, ranking[i]) >= degree(G, ranking[i + 1])

\* C26: for static HighestDegreeAttack (recalculate=False) the degree ranking
\* is computed once per attack call from the graph passed to that call, and the
\* attack_sequence equals the first min(budget, node count) nodes of that
\* ranking (initial degree descending), independent of how degrees change
\* during the run and of any ranking left over from an earlier attack call on
\* another graph.
C26_StaticRunFollowsOwnRanking ==
    StaticRun
    => /\ RanksByDegree(attacker.initial_ranking, before.graph)
       /\ ret.result.attack_sequence =
              SubSeq(attacker.initial_ranking, 1,
                     SeqMin(args.budget, number_of_nodes(before.graph)))

\* a static run on the path graph that removes node 2 while node 3 has the
\* higher degree, by an instance that ranked another graph differently before
C26_Witness ==
    /\ StaticRun
    /\ calls = 2
    /\ graph = PathGraph
    /\ NodeSet(recon) = NodeSet(graph)
    /\ SortedByDegreeDesc(recon.nodes, recon) # attacker.initial_ranking
    /\ ret.result.attack_sequence = <<1, 2, 3>>
    /\ ~HasMaxDegree(WorkingGraphAt(2), 2)

\* a construction heuristic returned its graph and its list of added edges
ConstructReturned == Returned("random_construct") \/ Returned("degree_based_construct")

\* the edges of a list of pairs
PairEdges(pairs) == {{pairs[i][1], pairs[i][2]} : i \in 1..Len(pairs)}

\* C27: construction heuristics never corrupt the graph: every edge in the
\* list returned by _random_construct or _degree_based_construct joins two
\* distinct nodes of the input graph, was absent from the input graph, and
\* occurs once in the list in either orientation; the returned graph has the
\* input's node set and exactly the input's edges plus the listed edges, and
\* the list has at most edge_budget entries.
C27_ConstructKeepsGraphSound ==
    ConstructReturned
    => /\ \A i \in 1..Len(ret.added) :
              /\ ret.added[i][1] # ret.added[i][2]
              /\ ret.added[i][1] \in NodeSet(before.graph)
              /\ ret.added[i][2] \in NodeSet(before.graph)
              /\ ~has_edge(before.graph, ret.added[i][1], ret.added[i][2])
       /\ \A i \in 1..Len(ret.added) : \A j \in (i + 1)..Len(ret.added) :
              {ret.added[i][1], ret.added[i][2]} # {ret.added[j][1], ret.added[j][2]}
       /\ NodeSet(ret.g) = NodeSet(before.graph)
       /\ ret.g.nodes = before.graph.nodes
       /\ ret.g.edges = before.graph.edges \cup PairEdges(ret.added)
       /\ Len(ret.added) <= args.budget

\* a random construct on a graph with edges that added two edges and then
\* sampled pairs that were already joined
C27_Witness ==
    /\ Returned("random_construct")
    /\ before.graph.edges # {}
    /\ Len(ret.added) = 2
    /\ ret.attempts > 2
    /\ args.budget > 2

\* C28: random construct always terminates normally: for every graph
\* (complete graphs and graphs with fewer than two nodes included) and every
\* edge_budget >= 0, _random_construct returns its (graph, added) pair after at
\* most edge_budget * 100 sampling attempts, without raising.
C28_RandomConstructReturns ==
    op = "random_construct"
    => /\ ret.raised = "no"
       /\ ret.attempts <= args.budget * AttemptsPerEdge

\* the part of C28 about graphs with two nodes or more, complete ones included
C28_ReturnsOnTwoNodesOrMore ==
    (op = "random_construct" /\ number_of_nodes(before.graph) >= 2)
    => /\ ret.raised = "no"
       /\ ret.attempts <= args.budget * AttemptsPerEdge

\* G with the edges of a list of pairs added
WithEdges(G, pairs) == [G EXCEPT !.edges = @ \cup PairEdges(pairs)]

\* the graph at the start of iteration k of the construct that returned
GraphAtIteration(k) == WithEdges(before.graph, SubSeq(ret.added, 1, k - 1))

\* the nodes of G by ascending degree, cut to the 20 lowest-ranked
LowestRanked(G) ==
    SubSeq(SortedByDegreeAsc(G.nodes, G), 1, SeqMin(20, number_of_nodes(G)))

\* the pair at ranks i < j of pool is the first one not joined in G
FirstNonAdjacent(G, pool, i, j) ==
    /\ i < j
    /\ ~has_edge(G, pool[i], pool[j])
    /\ \A a \in 1..Len(pool) : \A b \in (a + 1)..Len(pool) :
           (a < i \/ (a = i /\ b < j)) => has_edge(G, pool[a], pool[b])

PairwiseAdjacent(G, pool) ==
    \A a \in 1..Len(pool) : \A b \in (a + 1)..Len(pool) : has_edge(G, pool[a], pool[b])

\* C29: in each iteration of _degree_based_construct the nodes are re-ranked by
\* ascending current degree, and the edge added is the first non-adjacent pair
\* (rank i < rank j, scanned in rank order) among the 20 lowest-ranked nodes;
\* the procedure stops before edge_budget edges are added exactly when those
\* lowest-ranked nodes (all nodes if fewer than 20) are pairwise adjacent, even
\* if non-adjacent pairs exist elsewhere in the graph.
C29_AddsFirstFreePairOfPool ==
    Returned("degree_based_construct")
    => /\ \A k \in 1..Len(ret.added) :
              \E i \in 1..Len(LowestRanked(GraphAtIteration(k))) :
                  \E j \in 1..Len(LowestRanked(GraphAtIteration(k))) :
                      /\ ret.added[k] = <<LowestRanked(GraphAtIteration(k))[i],
                                          LowestRanked(GraphAtIteration(k))[j]>>
                      /\ FirstNonAdjacent(GraphAtIteration(k),
                                          LowestRanked(GraphAtIteration(k)), i, j)
       /\ Len(ret.added) <= args.budget
       /\ Len(ret.added) < args.budget => PairwiseAdjacent(ret.g, LowestRanked(ret.g))

\* a construct that added one edge among the 20 lowest-ranked nodes and then
\* stopped short of its budget on a graph with non-adjacent pairs left
C29_Witness ==
    /\ Returned("degree_based_construct")
    /\ number_of_nodes(before.graph) > 20
    /\ ret.added = <<<<3, 7>>>>
    /\ args.budget > 1
    /\ ~has_edge(ret.g, 0, 20)
====
